---- MODULE Spec2Model ----
(***************************************************************************)
(* Model of the library management core: the Book, Member and Transaction  *)
(* entities (src/models) and the LibraryService operations                  *)
(* (src/services/library_service.py).                                       *)
(*                                                                          *)
(* Conventions.  Time is counted in whole days (a datetime or a date is an  *)
(* integer day number, so a timedelta's .days is a plain difference).       *)
(* Money is counted in cents (1.0 is 100).  Python's None is None for ids   *)
(* and strings and NoneDate for datetimes.  Entity ids (uuid4) are fresh    *)
(* names taken from BookIdNames / MemberIdNames in order of creation.       *)
(* created_at / updated_at timestamps are not modelled.                     *)
(***************************************************************************)
EXTENDS Integers, Sequences, FiniteSets, TLC

VARIABLES
    books,          \* LibraryService._books: book id -> Book
    members,        \* LibraryService._members: member id -> Member
    transactions,   \* LibraryService._transactions, in insertion order
    now,            \* datetime.now() / date.today(), in days
    ids,            \* how many book / member ids uuid4 has handed out
    disk,           \* books.json, members.json, transactions.json
    last,           \* the last call: operation, arguments, exception raised
    txns            \* Transaction objects held outside the service

vars == <<books, members, transactions, now, ids, disk, last, txns>>

-----------------------------------------------------------------------------
(* Bounds of the model *)

MaxBooks == 2
MaxMembers == 2
MaxTrans == 2
MaxTime == 15
MaxFineUnits == 1
MaxHistory == 1
LoanBooks == 4
LoanMembers == 1
LoanTrans == 4
MaxTxnObjects == 2
CatBooks == 2
CatMembers == 1
EligBooks == 3
EligMembers == 1
EligTrans == 4
EligMaxTime == 366
RenewBooks == 1
RenewMembers == 1
RenewTrans == 6
FineTxns == 1
FineMaxTime == 50
LookBooks == 1
LookMembers == 1
LookTrans == 2
SnapBooks == 2
SnapMembers == 1
SnapTrans == 4
ReadBooks == 2
ReadMembers == 1
ReadTrans == 3
ValidBooks == 2
ValidMembers == 2
TypeMembers == 2
BalTrans == 3
BalFineUnits == 2
RefBooks == 1
RefMembers == 2
RefTrans == 3

-----------------------------------------------------------------------------
(* Values *)

None == "None"
NoneDate == -1

Money(units) == units * 100

BookIdNames == <<"b1", "b2", "b3", "b4", "b5", "b6">>
MemberIdNames == <<"m1", "m2", "m3", "m4">>
\* an id that no entity ever has (demo.py's "invalid-id")
InvalidId == "invalid-id"

BookStatus == {"available", "borrowed", "reserved", "maintenance", "lost"}
MembershipType == {"student", "faculty", "staff", "public", "premium"}
MemberStatus == {"active", "suspended", "expired", "blocked"}
TransactionType ==
    {"borrow", "return", "renew", "reserve", "cancel_reservation",
     "fine_payment", "lost_book"}
TransactionStatus == {"pending", "completed", "cancelled", "failed", "overdue"}

\* LibraryService.__init__ configuration
default_borrow_days == 14
max_renewals == 2
daily_fine_rate == Money(1)

EmptyMap == [x \in {} |-> None]

Put(map, key, value) == [x \in DOMAIN map \cup {key} |-> IF x = key THEN value ELSE map[x]]

Del(map, key) == [x \in DOMAIN map \ {key} |-> map[x]]

InSeq(s, x) == \E i \in 1..Len(s) : s[i] = x

\* list.remove(x): drops the first occurrence
RECURSIVE RemoveFirst(_, _)
RemoveFirst(s, x) ==
    IF s = <<>> THEN <<>>
    ELSE IF Head(s) = x THEN Tail(s)
    ELSE <<Head(s)>> \o RemoveFirst(Tail(s), x)

\* str.strip() on the strings the model uses
Strip(s) ==
    CASE s = " " -> ""
      [] s = " i1" -> "i1"
      [] OTHER -> s

-----------------------------------------------------------------------------
(* Book (src/models/book.py) *)

NewBook(title, author, isbn, pages) ==
    [title |-> Strip(title), author |-> Strip(author), isbn |-> Strip(isbn),
     pages |-> pages, status |-> "available", borrowed_by |-> None,
     borrowed_date |-> NoneDate, due_date |-> NoneDate, borrow_history |-> <<>>]

\* a variant that takes a book on loan for one on the shelf
Book_is_available_OnLoanToo(book) == book.status \in {"available", "borrowed"}

Book_is_available(book) == book.status = "available"

Book_get_validation_errors(book) ==
    (IF book.title = "" \/ Strip(book.title) = "" THEN {"Title is required"} ELSE {})
    \cup (IF book.author = "" \/ Strip(book.author) = "" THEN {"Author is required"} ELSE {})
    \cup (IF book.isbn = "" \/ Strip(book.isbn) = "" THEN {"ISBN is required"} ELSE {})
    \cup (IF book.pages < 0 THEN {"Pages cannot be negative"} ELSE {})

Book_validate(book) == Book_get_validation_errors(book) = {}

\* a borrow that records the loan but not its due date
Book_borrow_NoDueDate(book, member_id, due_date) ==
    IF ~Book_is_available(book) THEN [ok |-> FALSE, book |-> book]
    ELSE [ok |-> TRUE,
          book |-> [book EXCEPT !.status = "borrowed", !.borrowed_by = member_id,
                                !.borrowed_date = now]]

\* Book.borrow: [ok, book]
Book_borrow(book, member_id, due_date) ==
    IF ~Book_is_available(book) THEN [ok |-> FALSE, book |-> book]
    ELSE [ok |-> TRUE,
          book |-> [book EXCEPT !.status = "borrowed", !.borrowed_by = member_id,
                                !.borrowed_date = now, !.due_date = due_date]]

\* Book.return_book: [ok, book]
Book_return_book(book) ==
    IF book.status # "borrowed" THEN [ok |-> FALSE, book |-> book]
    ELSE [ok |-> TRUE,
          book |-> [book EXCEPT
              !.borrow_history = Append(@,
                  [member_id |-> book.borrowed_by,
                   borrowed_date |-> book.borrowed_date,
                   returned_date |-> now,
                   due_date |-> book.due_date,
                   was_overdue |-> IF book.due_date # NoneDate
                                   THEN now > book.due_date ELSE FALSE]),
              !.status = "available", !.borrowed_by = None,
              !.borrowed_date = NoneDate, !.due_date = NoneDate]]

\* Book.set_status: [ok, book]
Book_set_status(book, status) ==
    IF book.status = "borrowed" /\ status # "available"
    THEN [ok |-> FALSE, book |-> book]
    ELSE [ok |-> TRUE,
          book |-> IF status = "available"
                   THEN [book EXCEPT !.status = status, !.borrowed_by = None,
                                     !.borrowed_date = NoneDate, !.due_date = NoneDate]
                   ELSE [book EXCEPT !.status = status]]

-----------------------------------------------------------------------------
(* Member (src/models/member.py) *)

\* date(start.year + n, start.month, start.day), in days
Years(n) == n * 365

MembershipYears ==
    [student |-> 1, faculty |-> 3, staff |-> 2, premium |-> 1, public |-> 1]

MaxBooksForType ==
    [student |-> 5, faculty |-> 15, staff |-> 10, premium |-> 20, public |-> 3]

Member_calculate_membership_end_date(member) ==
    member.membership_start_date + Years(MembershipYears[member.membership_type])

Member_get_max_books_for_type(member) == MaxBooksForType[member.membership_type]

\* ContactInfo.__init__; the address has no rule and is left out
ContactInfo(email, phone) == [email |-> Strip(email), phone |-> Strip(phone)]

\* ContactInfo._is_valid_email: the match of the pattern
\* ^[a-zA-Z0-9._%+-]+@[a-zA-Z0-9.-]+\.[a-zA-Z]{2,}$ on the addresses the model uses
ContactInfo_is_valid_email(email) ==
    CASE email = "a@b.cd" -> TRUE
      [] email = "invalid-email" -> FALSE
      [] email = "a@b" -> FALSE
      [] OTHER -> FALSE

\* the phone numbers the model uses with spaces, dashes and parentheses removed:
\* whether digits only are left, and how many characters
PhoneCleaned(phone) ==
    CASE phone = "0123456789" -> [isdigit |-> TRUE, len |-> 10]
      [] phone = "(012) 345-6789" -> [isdigit |-> TRUE, len |-> 10]
      [] phone = "123" -> [isdigit |-> TRUE, len |-> 3]
      [] OTHER -> [isdigit |-> FALSE, len |-> 0]

ContactInfo_is_valid_phone(phone) ==
    PhoneCleaned(phone).isdigit /\ 10 <= PhoneCleaned(phone).len /\ PhoneCleaned(phone).len <= 15

\* Member.__init__ with the contact_info argument
Member_init(first_name, last_name, membership_type, contact_info) ==
    LET m0 == [first_name |-> Strip(first_name), last_name |-> Strip(last_name),
               membership_type |-> membership_type, status |-> "active",
               contact_info |-> contact_info,
               membership_start_date |-> now, membership_end_date |-> NoneDate,
               borrowed_books |-> <<>>, fine_amount |-> 0, max_books_allowed |-> 0]
        m1 == [m0 EXCEPT !.membership_end_date = Member_calculate_membership_end_date(m0)]
    IN  [m1 EXCEPT !.max_books_allowed = Member_get_max_books_for_type(m1)]

\* Member.__init__ without it: contact_info or ContactInfo()
NewMember(first_name, last_name, membership_type) ==
    Member_init(first_name, last_name, membership_type, ContactInfo("", ""))

Member_borrowed_books_count(member) == Len(member.borrowed_books)

Member_is_active(member) == member.status = "active"

\* a variant that never looks at the end date
Member_is_membership_valid_Always(member) == TRUE

Member_is_membership_valid(member) == now <= member.membership_end_date

\* a variant whose limit check is off by one
Member_can_borrow_books_OffByOne(member) ==
    /\ Member_is_active(member)
    /\ Member_is_membership_valid(member)
    /\ Member_borrowed_books_count(member) <= member.max_books_allowed
    /\ member.fine_amount = 0

Member_can_borrow_books(member) ==
    /\ Member_is_active(member)
    /\ Member_is_membership_valid(member)
    /\ Member_borrowed_books_count(member) < member.max_books_allowed
    /\ member.fine_amount = 0

\* Member.borrow_book: [ok, member]
Member_borrow_book(member, book_id) ==
    IF ~Member_can_borrow_books(member) THEN [ok |-> FALSE, member |-> member]
    ELSE IF InSeq(member.borrowed_books, book_id) THEN [ok |-> FALSE, member |-> member]
    ELSE [ok |-> TRUE, member |-> [member EXCEPT !.borrowed_books = Append(@, book_id)]]

\* Member.return_book: [ok, member]
Member_return_book(member, book_id) ==
    IF ~InSeq(member.borrowed_books, book_id) THEN [ok |-> FALSE, member |-> member]
    ELSE [ok |-> TRUE,
          member |-> [member EXCEPT !.borrowed_books = RemoveFirst(@, book_id)]]

\* Member.add_fine: [err, member]
Member_add_fine(member, amount) ==
    IF amount < 0 THEN [err |-> "ValueError", member |-> member]
    ELSE [err |-> None, member |-> [member EXCEPT !.fine_amount = @ + amount]]

\* pay_fine without the floor at zero
Member_pay_fine_NoFloor(member, amount) ==
    IF amount < 0 THEN [err |-> "ValueError", member |-> member]
    ELSE [err |-> None, member |-> [member EXCEPT !.fine_amount = @ - amount]]

\* Member.pay_fine: [err, member]
Member_pay_fine(member, amount) ==
    IF amount < 0 THEN [err |-> "ValueError", member |-> member]
    ELSE [err |-> None,
          member |-> [member EXCEPT
              !.fine_amount = IF @ - amount > 0 THEN @ - amount ELSE 0]]

\* the membership_type setter
\* a variant that leaves the end date of the old type
Member_set_membership_type_KeepsEndDate(member, value) ==
    IF value \notin MembershipType THEN [err |-> "TypeError", member |-> member]
    ELSE LET m1 == [member EXCEPT !.membership_type = value]
         IN  [err |-> None,
              member |-> [m1 EXCEPT !.max_books_allowed =
                                        Member_get_max_books_for_type(m1)]]

Member_set_membership_type(member, value) ==
    IF value \notin MembershipType THEN [err |-> "TypeError", member |-> member]
    ELSE LET m1 == [member EXCEPT !.membership_type = value]
             m2 == [m1 EXCEPT !.membership_end_date =
                                  Member_calculate_membership_end_date(m1)]
         IN  [err |-> None,
              member |-> [m2 EXCEPT !.max_books_allowed =
                                        Member_get_max_books_for_type(m2)]]

\* the first_name / last_name setters
Member_set_name(member, field, value) ==
    IF value = "" \/ Strip(value) = "" THEN [err |-> "ValueError", member |-> member]
    ELSE [err |-> None,
          member |-> IF field = "first_name"
                     THEN [member EXCEPT !.first_name = Strip(value)]
                     ELSE [member EXCEPT !.last_name = Strip(value)]]

\* the try block of get_validation_errors: email and phone are assigned to
\* themselves in turn, and the first ValueError ends the block
Member_contact_info_errors(contact_info) ==
    IF contact_info.email # "" /\ ~ContactInfo_is_valid_email(contact_info.email)
    THEN {"Invalid email format"}
    ELSE IF contact_info.phone # "" /\ ~ContactInfo_is_valid_phone(contact_info.phone)
    THEN {"Invalid phone format"}
    ELSE {}

Member_get_validation_errors(member) ==
    (IF member.first_name = "" \/ Strip(member.first_name) = ""
        THEN {"First name is required"} ELSE {})
    \cup (IF member.last_name = "" \/ Strip(member.last_name) = ""
        THEN {"Last name is required"} ELSE {})
    \cup (IF member.fine_amount < 0 THEN {"Fine amount cannot be negative"} ELSE {})
    \cup Member_contact_info_errors(member.contact_info)

Member_validate(member) == Member_get_validation_errors(member) = {}

-----------------------------------------------------------------------------
(* Transaction (src/models/transaction.py) *)

NewTransaction(member_id, transaction_type, book_id, amount, due_date) ==
    [member_id |-> Strip(member_id), transaction_type |-> transaction_type,
     book_id |-> IF book_id # None THEN Strip(book_id) ELSE None,
     amount |-> amount,
     due_date |-> IF transaction_type = "borrow" /\ due_date = NoneDate
                  THEN now + default_borrow_days ELSE due_date,
     notes |-> <<>>, status |-> "pending", processed_by |-> None,
     processed_at |-> NoneDate, fine_amount |-> 0, return_date |-> NoneDate]

Transaction_is_overdue(t) ==
    IF t.due_date = NoneDate \/ t.status # "completed" THEN FALSE
    ELSE IF t.transaction_type = "borrow"
    THEN \/ (t.return_date # NoneDate /\ t.return_date > t.due_date)
         \/ (t.return_date = NoneDate /\ now > t.due_date)
    ELSE FALSE

Transaction_days_overdue(t) ==
    IF ~Transaction_is_overdue(t) \/ t.due_date = NoneDate THEN 0
    ELSE (IF t.return_date # NoneDate THEN t.return_date ELSE now) - t.due_date

\* the progressive schedule before rounding, in half cents (rate * 1.5 of a rate
\* in whole cents is a whole number of half cents)
FineHalfCents(days_overdue, rate) ==
    IF days_overdue <= 7 THEN 2 * days_overdue * rate
    ELSE IF days_overdue <= 30
    THEN 14 * rate + (days_overdue - 7) * (3 * rate)
    ELSE 14 * rate + 23 * (3 * rate) + (days_overdue - 30) * (4 * rate)

\* round(fine, 2): to whole cents, a half cent to the even cent. For a rate that is
\* a multiple of 0.25 every value of the schedule is a binary fraction, the float
\* arithmetic is exact and round() rounds the half as written here.
Round2(half_cents) ==
    IF half_cents % 2 = 0 THEN half_cents \div 2
    ELSE IF (half_cents \div 2) % 2 = 0 THEN half_cents \div 2
    ELSE half_cents \div 2 + 1

\* a schedule whose second tier begins a day late
ProgressiveFine_LateSecondTier(days_overdue, rate) ==
    Round2(IF days_overdue <= 8 THEN 2 * days_overdue * rate
           ELSE FineHalfCents(days_overdue, rate))

ProgressiveFine(days_overdue, rate) == Round2(FineHalfCents(days_overdue, rate))

Transaction_calculate_fine(t, rate) ==
    IF ~Transaction_is_overdue(t) THEN 0
    ELSE IF Transaction_days_overdue(t) <= 0 THEN 0
    ELSE ProgressiveFine(Transaction_days_overdue(t), rate)

\* Transaction.process_transaction: [ok, t]
\* process_transaction that reports success and leaves the transaction pending
Transaction_process_transaction_StaysPending(t, processed_by) ==
    [ok |-> TRUE, t |-> t]

\* process_transaction without its test of the status
Transaction_process_transaction_Again(t, processed_by) ==
    [ok |-> TRUE,
     t |-> [t EXCEPT !.status = "completed",
                     !.processed_by = Strip(processed_by),
                     !.processed_at = now]]

Transaction_process_transaction(t, processed_by) ==
    IF t.status # "pending" THEN [ok |-> FALSE, t |-> t]
    ELSE LET t1 == [t EXCEPT !.status = "completed",
                             !.processed_by = Strip(processed_by),
                             !.processed_at = now]
         IN  IF t.transaction_type = "return"
             THEN LET t2 == [t1 EXCEPT !.return_date = now]
                  IN  [ok |-> TRUE,
                       \* calculate_fine() with its default rate of 1.0
                       t |-> [t2 EXCEPT !.fine_amount =
                                  Transaction_calculate_fine(t2, Money(1))]]
             ELSE [ok |-> TRUE, t |-> t1]

\* "{notes}\n{label}: {reason}".strip(), the notes kept as their lines
AddNote(notes, label, reason) ==
    IF reason = "" THEN notes ELSE Append(notes, <<label, reason>>)

\* cancel_transaction without its test of the status
Transaction_cancel_transaction_AnyStatus(t, reason) ==
    [ok |-> TRUE,
     t |-> [t EXCEPT !.status = "cancelled",
                     !.notes = AddNote(@, "Cancelled", reason)]]

\* Transaction.cancel_transaction: [ok, t]
Transaction_cancel_transaction(t, reason) ==
    IF t.status \notin {"pending", "failed"} THEN [ok |-> FALSE, t |-> t]
    ELSE [ok |-> TRUE,
          t |-> [t EXCEPT !.status = "cancelled",
                          !.notes = AddNote(@, "Cancelled", reason)]]

\* Transaction.fail_transaction: [ok, t]
Transaction_fail_transaction(t, reason) ==
    IF t.status # "pending" THEN [ok |-> FALSE, t |-> t]
    ELSE [ok |-> TRUE,
          t |-> [t EXCEPT !.status = "failed",
                          !.notes = AddNote(@, "Failed", reason)]]

-----------------------------------------------------------------------------
(* Serialisation and persistence (to_dict, LibraryService._save_data) *)

JsonNull == <<>>

\* datetime.isoformat() / date.isoformat(), or null for None
IsoFormat(d) == IF d = NoneDate THEN JsonNull ELSE <<"iso", d>>

Book_to_dict(id, book) ==
    [id |-> id, title |-> book.title, author |-> book.author, isbn |-> book.isbn,
     pages |-> book.pages, status |-> book.status, borrowed_by |-> book.borrowed_by,
     borrowed_date |-> IsoFormat(book.borrowed_date),
     due_date |-> IsoFormat(book.due_date),
     \* the history is handed over as it is, datetime objects included
     borrow_history |-> book.borrow_history]

Member_to_dict(id, member) ==
    [id |-> id, first_name |-> member.first_name, last_name |-> member.last_name,
     membership_type |-> member.membership_type, status |-> member.status,
     contact_info |-> member.contact_info,
     membership_start_date |-> IsoFormat(member.membership_start_date),
     membership_end_date |-> IsoFormat(member.membership_end_date),
     borrowed_books |-> member.borrowed_books, fine_amount |-> member.fine_amount,
     max_books_allowed |-> member.max_books_allowed]

Transaction_to_dict(id, t) ==
    [id |-> id, member_id |-> t.member_id, transaction_type |-> t.transaction_type,
     book_id |-> t.book_id, amount |-> t.amount, due_date |-> IsoFormat(t.due_date),
     notes |-> t.notes, status |-> t.status, processed_by |-> t.processed_by,
     processed_at |-> IsoFormat(t.processed_at), fine_amount |-> t.fine_amount,
     return_date |-> IsoFormat(t.return_date),
     is_overdue |-> Transaction_is_overdue(t),
     days_overdue |-> Transaction_days_overdue(t)]

\* datetime.fromisoformat() / date.fromisoformat()
FromIsoFormat(text) == text[2]

\* a variant that forgets the due date
Book_from_dict_NoDueDate(data) ==
    LET book == NewBook(data.title, data.author, data.isbn, data.pages)
    IN  [id |-> data.id,
         book |-> [book EXCEPT
             !.status = data.status,
             !.borrowed_by = data.borrowed_by,
             !.borrowed_date = IF data.borrowed_date # JsonNull
                               THEN FromIsoFormat(data.borrowed_date) ELSE @,
             !.borrow_history = data.borrow_history]]

\* Book.from_dict: the constructor, then the fields it does not take
Book_from_dict(data) ==
    LET book == NewBook(data.title, data.author, data.isbn, data.pages)
    IN  [id |-> data.id,
         book |-> [book EXCEPT
             !.status = data.status,
             !.borrowed_by = data.borrowed_by,
             !.borrowed_date = IF data.borrowed_date # JsonNull
                               THEN FromIsoFormat(data.borrowed_date) ELSE @,
             !.due_date = IF data.due_date # JsonNull
                          THEN FromIsoFormat(data.due_date) ELSE @,
             !.borrow_history = data.borrow_history]]

Member_from_dict(data) ==
    LET contact_info == ContactInfo(data.contact_info.email, data.contact_info.phone)
        member == Member_init(data.first_name, data.last_name, data.membership_type,
                              contact_info)
    IN  [id |-> data.id,
         member |-> [member EXCEPT
             !.status = data.status,
             !.membership_start_date =
                 IF data.membership_start_date # JsonNull
                 THEN FromIsoFormat(data.membership_start_date) ELSE @,
             !.membership_end_date =
                 IF data.membership_end_date # JsonNull
                 THEN FromIsoFormat(data.membership_end_date) ELSE @,
             !.borrowed_books = data.borrowed_books,
             !.fine_amount = data.fine_amount,
             !.max_books_allowed = data.max_books_allowed]]

\* Transaction.from_dict; the notes are text that strip() leaves as it is
Transaction_from_dict(data) ==
    LET t == NewTransaction(data.member_id, data.transaction_type, data.book_id,
                            data.amount,
                            IF data.due_date # JsonNull
                            THEN FromIsoFormat(data.due_date) ELSE NoneDate)
    IN  [id |-> data.id,
         t |-> [t EXCEPT
             !.notes = data.notes,
             !.status = data.status,
             !.processed_by = data.processed_by,
             !.fine_amount = data.fine_amount,
             !.processed_at = IF data.processed_at # JsonNull
                              THEN FromIsoFormat(data.processed_at) ELSE @,
             !.return_date = IF data.return_date # JsonNull
                             THEN FromIsoFormat(data.return_date) ELSE @]]

\* json.dump accepts None but no datetime object
JsonEncodableDate(d) == d = NoneDate

JsonEncodableBook(book_dict) ==
    \A i \in 1..Len(book_dict.borrow_history) :
        /\ JsonEncodableDate(book_dict.borrow_history[i].borrowed_date)
        /\ JsonEncodableDate(book_dict.borrow_history[i].returned_date)
        /\ JsonEncodableDate(book_dict.borrow_history[i].due_date)

\* A file of the data directory: not there yet, written in full with the document
\* that json.dump was given, or truncated by open(..., 'w') and left with the
\* part that json.dump wrote before it raised, which is no JSON document.
NoFile == [state |-> "absent", data |-> EmptyMap]
WrittenFile(data) == [state |-> "written", data |-> data]
PartialFile == [state |-> "partial", data |-> EmptyMap]

\* The data directory.  With followed = FALSE a file is followed by its state
\* only and its document is left out; with followed = TRUE the document is kept.
NoFiles(followed) ==
    [books |-> NoFile, members |-> NoFile, transactions |-> NoFile,
     followed |-> followed]

\* a variant that leaves transactions.json as it was
SaveData_KeepsTransactionsFile(bks, mems, txs, old) ==
    LET books_data == [id \in DOMAIN bks |-> Book_to_dict(id, bks[id])]
        members_data == [id \in DOMAIN mems |-> Member_to_dict(id, mems[id])]
        transactions_data == [i \in DOMAIN txs |-> Transaction_to_dict(i, txs[i])]
        Document(data) == IF old.followed THEN data ELSE EmptyMap
    IN  IF \E id \in DOMAIN books_data : ~JsonEncodableBook(books_data[id])
        THEN [ok |-> FALSE, disk |-> [old EXCEPT !.books = PartialFile]]
        ELSE [ok |-> TRUE,
              disk |-> [books |-> WrittenFile(Document(books_data)),
                        members |-> WrittenFile(Document(members_data)),
                        transactions |-> old.transactions,
                        followed |-> old.followed]]

\* LibraryService._save_data: [ok, disk]
SaveData(bks, mems, txs, old) ==
    LET books_data == [id \in DOMAIN bks |-> Book_to_dict(id, bks[id])]
        members_data == [id \in DOMAIN mems |-> Member_to_dict(id, mems[id])]
        transactions_data == [i \in DOMAIN txs |-> Transaction_to_dict(i, txs[i])]
        Document(data) == IF old.followed THEN data ELSE EmptyMap
    IN  IF \E id \in DOMAIN books_data : ~JsonEncodableBook(books_data[id])
        THEN [ok |-> FALSE, disk |-> [old EXCEPT !.books = PartialFile]]
        ELSE [ok |-> TRUE,
              disk |-> [books |-> WrittenFile(Document(books_data)),
                        members |-> WrittenFile(Document(members_data)),
                        transactions |-> WrittenFile(Document(transactions_data)),
                        followed |-> old.followed]]

-----------------------------------------------------------------------------
(* The outcome of a call *)

\* what the caller sees of a call: the operation, the exception it raised (None
\* when it returned), the message's reasons, and a returned bool
Call(op, m, b, err, msg, ret) ==
    [op |-> op, err |-> err, msg |-> msg, ret |-> ret]

\* the call raises before it changed anything
Raise(op, m, b, err, msg) ==
    /\ last' = Call(op, m, b, err, msg, None)
    /\ UNCHANGED <<books, members, transactions, now, ids, disk, txns>>

\* a variant that puts the store back when the write fails
Commit_RollbackOnFailure(op, m, b, nbooks, nmembers, ntransactions) ==
    LET s == SaveData(nbooks, nmembers, ntransactions, disk)
    IN  /\ books' = IF s.ok THEN nbooks ELSE books
        /\ members' = IF s.ok THEN nmembers ELSE members
        /\ transactions' = IF s.ok THEN ntransactions ELSE transactions
        /\ disk' = s.disk
        /\ last' = IF s.ok THEN Call(op, m, b, None, {}, None)
                   ELSE Call(op, m, b, "LibraryServiceError", {"Failed to save data"}, None)
        /\ UNCHANGED <<now, txns>>

\* the store is changed in memory and _save_data() is called
Commit(op, m, b, nbooks, nmembers, ntransactions) ==
    LET s == SaveData(nbooks, nmembers, ntransactions, disk)
    IN  /\ books' = nbooks
        /\ members' = nmembers
        /\ transactions' = ntransactions
        /\ disk' = s.disk
        /\ last' = IF s.ok THEN Call(op, m, b, None, {}, None)
                   ELSE Call(op, m, b, "LibraryServiceError", {"Failed to save data"}, None)
        /\ UNCHANGED <<now, txns>>

-----------------------------------------------------------------------------
(* LibraryService: books *)

add_book(title, author, isbn, pages) ==
    IF \E id \in DOMAIN books : books[id].isbn = isbn
    THEN Raise("add_book", None, None, "LibraryServiceError", {"ISBN already exists"})
    ELSE LET book == NewBook(title, author, isbn, pages)
             id == BookIdNames[ids.book + 1]
         IN  IF ~Book_validate(book)
             THEN Raise("add_book", None, None, "LibraryServiceError",
                        Book_get_validation_errors(book))
             ELSE /\ ids' = [ids EXCEPT !.book = @ + 1]
                  /\ Commit("add_book", None, id, Put(books, id, book), members,
                            transactions)

get_book(book_id) ==
    IF book_id \notin DOMAIN books
    THEN Raise("get_book", None, book_id, "BookNotFoundError", {})
    ELSE /\ last' = Call("get_book", None, book_id, None, {}, None)
         /\ UNCHANGED <<books, members, transactions, now, ids, disk, txns>>

HasPendingTransactions(book_id) ==
    \E i \in DOMAIN transactions :
        transactions[i].book_id = book_id /\ transactions[i].status = "pending"

\* a variant without the check for a book on loan
delete_book_NoLoanCheck(book_id) ==
    IF book_id \notin DOMAIN books
    THEN Raise("delete_book", None, book_id, "BookNotFoundError", {})
    ELSE IF HasPendingTransactions(book_id)
    THEN Raise("delete_book", None, book_id, "LibraryServiceError",
               {"Cannot delete book with pending transactions"})
    ELSE /\ UNCHANGED ids
         /\ Commit("delete_book", None, book_id, Del(books, book_id), members,
                   transactions)

delete_book(book_id) ==
    IF book_id \notin DOMAIN books
    THEN Raise("delete_book", None, book_id, "BookNotFoundError", {})
    ELSE IF books[book_id].status = "borrowed"
    THEN Raise("delete_book", None, book_id, "LibraryServiceError",
               {"Cannot delete a borrowed book"})
    ELSE IF HasPendingTransactions(book_id)
    THEN Raise("delete_book", None, book_id, "LibraryServiceError",
               {"Cannot delete book with pending transactions"})
    ELSE /\ UNCHANGED ids
         /\ Commit("delete_book", None, book_id, Del(books, book_id), members,
                   transactions)

\* setattr(book, field, value): the title, author and pages setters; a field
\* that is not in updatable_fields (isbn, status) is passed over
Book_setattr(book, field, value) ==
    IF field \in {"title", "author"}
    THEN IF value = "" \/ Strip(value) = ""
         THEN [err |-> "ValueError", book |-> book]
         ELSE [err |-> None,
               book |-> IF field = "title" THEN [book EXCEPT !.title = Strip(value)]
                        ELSE [book EXCEPT !.author = Strip(value)]]
    ELSE IF field = "pages"
    THEN IF value < 0 THEN [err |-> "ValueError", book |-> book]
         ELSE [err |-> None, book |-> [book EXCEPT !.pages = value]]
    ELSE [err |-> None, book |-> book]

\* the loop over kwargs: it stops at the first setter that raises
RECURSIVE ApplyBookFields(_, _)
ApplyBookFields(book, kwargs) ==
    IF kwargs = <<>> THEN [err |-> None, book |-> book]
    ELSE LET r == Book_setattr(book, Head(kwargs)[1], Head(kwargs)[2])
         IN  IF r.err # None THEN r ELSE ApplyBookFields(r.book, Tail(kwargs))

\* the setters act on the stored object: what they changed before one of them
\* raised, or before validate() failed, stays changed
update_book(book_id, kwargs) ==
    IF book_id \notin DOMAIN books
    THEN Raise("update_book", None, book_id, "BookNotFoundError", {})
    ELSE LET r == ApplyBookFields(books[book_id], kwargs)
         IN  IF r.err # None
             THEN /\ books' = Put(books, book_id, r.book)
                  /\ last' = Call("update_book", None, book_id, r.err, {}, None)
                  /\ UNCHANGED <<members, transactions, now, ids, disk, txns>>
             ELSE IF ~Book_validate(r.book)
             THEN /\ books' = Put(books, book_id, r.book)
                  /\ last' = Call("update_book", None, book_id, "LibraryServiceError",
                                  Book_get_validation_errors(r.book), None)
                  /\ UNCHANGED <<members, transactions, now, ids, disk, txns>>
             ELSE /\ UNCHANGED ids
                  /\ Commit("update_book", None, book_id,
                            Put(books, book_id, r.book), members, transactions)

-----------------------------------------------------------------------------
(* LibraryService: members *)

\* add_member with contact_info among the keyword arguments
add_member_kwargs(first_name, last_name, membership_type, contact_info) ==
    LET member == Member_init(first_name, last_name, membership_type, contact_info)
        id == MemberIdNames[ids.member + 1]
    IN  IF ~Member_validate(member)
        THEN Raise("add_member", None, None, "LibraryServiceError",
                   Member_get_validation_errors(member))
        ELSE /\ ids' = [ids EXCEPT !.member = @ + 1]
             /\ Commit("add_member", id, None, books, Put(members, id, member),
                       transactions)

\* add_member without keyword arguments
add_member(first_name, last_name, membership_type) ==
    add_member_kwargs(first_name, last_name, membership_type, ContactInfo("", ""))

get_member(member_id) ==
    IF member_id \notin DOMAIN members
    THEN Raise("get_member", member_id, None, "MemberNotFoundError", {})
    ELSE /\ last' = Call("get_member", member_id, None, None, {}, None)
         /\ UNCHANGED <<books, members, transactions, now, ids, disk, txns>>

\* setattr(member, field, value) for one updatable field
Member_setattr(member, field, value) ==
    IF field = "membership_type" THEN Member_set_membership_type(member, value)
    ELSE Member_set_name(member, field, value)

\* the loop over kwargs: it stops at the first setter that raises
RECURSIVE ApplyMemberFields(_, _)
ApplyMemberFields(member, kwargs) ==
    IF kwargs = <<>> THEN [err |-> None, member |-> member]
    ELSE LET r == Member_setattr(member, Head(kwargs)[1], Head(kwargs)[2])
         IN  IF r.err # None THEN r ELSE ApplyMemberFields(r.member, Tail(kwargs))

update_member(member_id, kwargs) ==
    IF member_id \notin DOMAIN members
    THEN Raise("update_member", member_id, None, "MemberNotFoundError", {})
    ELSE LET r == ApplyMemberFields(members[member_id], kwargs)
         IN  IF r.err # None
             THEN /\ members' = Put(members, member_id, r.member)
                  /\ last' = Call("update_member", member_id, None, r.err, {}, None)
                  /\ UNCHANGED <<books, transactions, now, ids, disk, txns>>
             ELSE IF ~Member_validate(r.member)
             THEN /\ members' = Put(members, member_id, r.member)
                  /\ last' = Call("update_member", member_id, None, "LibraryServiceError",
                                  Member_get_validation_errors(r.member), None)
                  /\ UNCHANGED <<books, transactions, now, ids, disk, txns>>
             ELSE /\ UNCHANGED ids
                  /\ Commit("update_member", member_id, None, books,
                            Put(members, member_id, r.member), transactions)

\* a variant that takes the deletion of a member that is not there for done
delete_member_MissingIsFine(member_id) ==
    IF member_id \notin DOMAIN members
    THEN /\ last' = Call("delete_member", member_id, None, None, {}, None)
         /\ UNCHANGED <<books, members, transactions, now, ids, disk, txns>>
    ELSE IF Member_borrowed_books_count(members[member_id]) > 0
    THEN Raise("delete_member", member_id, None, "LibraryServiceError",
               {"Cannot delete member with borrowed books"})
    ELSE IF members[member_id].fine_amount > 0
    THEN Raise("delete_member", member_id, None, "LibraryServiceError",
               {"Cannot delete member with outstanding fines"})
    ELSE /\ UNCHANGED ids
         /\ Commit("delete_member", member_id, None, books, Del(members, member_id),
                   transactions)

\* a variant without the check for outstanding fines
delete_member_NoFineCheck(member_id) ==
    IF member_id \notin DOMAIN members
    THEN Raise("delete_member", member_id, None, "MemberNotFoundError", {})
    ELSE IF Member_borrowed_books_count(members[member_id]) > 0
    THEN Raise("delete_member", member_id, None, "LibraryServiceError",
               {"Cannot delete member with borrowed books"})
    ELSE /\ UNCHANGED ids
         /\ Commit("delete_member", member_id, None, books, Del(members, member_id),
                   transactions)

\* a variant without the check for borrowed books
delete_member_NoBorrowedCheck(member_id) ==
    IF member_id \notin DOMAIN members
    THEN Raise("delete_member", member_id, None, "MemberNotFoundError", {})
    ELSE IF members[member_id].fine_amount > 0
    THEN Raise("delete_member", member_id, None, "LibraryServiceError",
               {"Cannot delete member with outstanding fines"})
    ELSE /\ UNCHANGED ids
         /\ Commit("delete_member", member_id, None, books, Del(members, member_id),
                   transactions)

delete_member(member_id) ==
    IF member_id \notin DOMAIN members
    THEN Raise("delete_member", member_id, None, "MemberNotFoundError", {})
    ELSE IF Member_borrowed_books_count(members[member_id]) > 0
    THEN Raise("delete_member", member_id, None, "LibraryServiceError",
               {"Cannot delete member with borrowed books"})
    ELSE IF members[member_id].fine_amount > 0
    THEN Raise("delete_member", member_id, None, "LibraryServiceError",
               {"Cannot delete member with outstanding fines"})
    ELSE /\ UNCHANGED ids
         /\ Commit("delete_member", member_id, None, books, Del(members, member_id),
                   transactions)

-----------------------------------------------------------------------------
(* LibraryService: the transaction engine *)

\* a variant that stops at the first reason found
BorrowRefusalReasons_FirstOnly(member) ==
    IF ~Member_is_active(member) THEN {"member is not active"}
    ELSE IF ~Member_is_membership_valid(member) THEN {"membership has expired"}
    ELSE IF Member_borrowed_books_count(member) >= member.max_books_allowed
    THEN {"maximum book limit reached"}
    ELSE IF member.fine_amount > 0 THEN {"outstanding fines must be paid"}
    ELSE {}

\* the reasons borrow_book lists for a member that cannot borrow
BorrowRefusalReasons(member) ==
    (IF ~Member_is_active(member) THEN {"member is not active"} ELSE {})
    \cup (IF ~Member_is_membership_valid(member) THEN {"membership has expired"} ELSE {})
    \cup (IF Member_borrowed_books_count(member) >= member.max_books_allowed
          THEN {"maximum book limit reached"} ELSE {})
    \cup (IF member.fine_amount > 0 THEN {"outstanding fines must be paid"} ELSE {})

borrow_book(member_id, book_id) ==
    IF member_id \notin DOMAIN members
    THEN Raise("borrow_book", member_id, book_id, "MemberNotFoundError", {})
    ELSE IF book_id \notin DOMAIN books
    THEN Raise("borrow_book", member_id, book_id, "BookNotFoundError", {})
    ELSE
    LET member == members[member_id]
        book == books[book_id]
        due_date == now + default_borrow_days
        t == Transaction_process_transaction(
                 NewTransaction(member_id, "borrow", book_id, 0, due_date), "system")
        bb == Book_borrow(book, member_id, due_date)
        mb == Member_borrow_book(member, book_id)
    IN  IF ~Member_can_borrow_books(member)
        THEN Raise("borrow_book", member_id, book_id, "TransactionError",
                   BorrowRefusalReasons(member))
        ELSE IF ~Book_is_available(book)
        THEN Raise("borrow_book", member_id, book_id, "TransactionError",
                   {"Book is not available"})
        ELSE IF ~t.ok
        THEN Raise("borrow_book", member_id, book_id, "TransactionError",
                   {"Failed to process borrow transaction"})
        ELSE IF ~bb.ok
        THEN Raise("borrow_book", member_id, book_id, "TransactionError",
                   {"Failed to update book status"})
        ELSE IF ~mb.ok
        THEN \* rollback of the book: book.return_book()
             /\ books' = Put(books, book_id, Book_return_book(bb.book).book)
             /\ last' = Call("borrow_book", member_id, book_id, "TransactionError",
                             {"Failed to update member borrowed books"}, None)
             /\ UNCHANGED <<members, transactions, now, ids, disk, txns>>
        ELSE /\ UNCHANGED ids
             /\ Commit("borrow_book", member_id, book_id,
                       Put(books, book_id, bb.book),
                       Put(members, member_id, mb.member),
                       Append(transactions, t.t))

\* a variant without the two checks of who holds the book
return_book_NoPreconditions(member_id, book_id) ==
    IF member_id \notin DOMAIN members
    THEN Raise("return_book", member_id, book_id, "MemberNotFoundError", {})
    ELSE IF book_id \notin DOMAIN books
    THEN Raise("return_book", member_id, book_id, "BookNotFoundError", {})
    ELSE
    LET member == members[member_id]
        book == books[book_id]
        t == Transaction_process_transaction(
                 NewTransaction(member_id, "return", book_id, 0, NoneDate), "system")
        fine_amount == Transaction_calculate_fine(t.t, daily_fine_rate)
        fined == IF fine_amount > 0
                 THEN Member_add_fine(member, fine_amount).member ELSE member
        t1 == IF fine_amount > 0 THEN [t.t EXCEPT !.fine_amount = fine_amount] ELSE t.t
        br == Book_return_book(book)
        mr == Member_return_book(fined, book_id)
    IN  IF ~t.ok
        THEN Raise("return_book", member_id, book_id, "TransactionError",
                   {"Failed to process return transaction"})
        ELSE IF ~br.ok
        THEN /\ members' = Put(members, member_id, fined)
             /\ last' = Call("return_book", member_id, book_id, "TransactionError",
                             {"Failed to update book status"}, None)
             /\ UNCHANGED <<books, transactions, now, ids, disk, txns>>
        ELSE IF ~mr.ok
        THEN /\ members' = Put(members, member_id, fined)
             /\ books' = Put(books, book_id, br.book)
             /\ last' = Call("return_book", member_id, book_id, "TransactionError",
                             {"Failed to update member borrowed books"}, None)
             /\ UNCHANGED <<transactions, now, ids, disk, txns>>
        ELSE /\ UNCHANGED ids
             /\ Commit("return_book", member_id, book_id,
                       Put(books, book_id, br.book),
                       Put(members, member_id, mr.member),
                       Append(transactions, t1))

return_book(member_id, book_id) ==
    IF member_id \notin DOMAIN members
    THEN Raise("return_book", member_id, book_id, "MemberNotFoundError", {})
    ELSE IF book_id \notin DOMAIN books
    THEN Raise("return_book", member_id, book_id, "BookNotFoundError", {})
    ELSE
    LET member == members[member_id]
        book == books[book_id]
        t == Transaction_process_transaction(
                 NewTransaction(member_id, "return", book_id, 0, NoneDate), "system")
        fine_amount == Transaction_calculate_fine(t.t, daily_fine_rate)
        fined == IF fine_amount > 0
                 THEN Member_add_fine(member, fine_amount).member ELSE member
        t1 == IF fine_amount > 0 THEN [t.t EXCEPT !.fine_amount = fine_amount] ELSE t.t
        br == Book_return_book(book)
        mr == Member_return_book(fined, book_id)
    IN  IF ~InSeq(member.borrowed_books, book_id)
        THEN Raise("return_book", member_id, book_id, "TransactionError",
                   {"Member does not have this book borrowed"})
        ELSE IF book.borrowed_by # member_id
        THEN Raise("return_book", member_id, book_id, "TransactionError",
                   {"Book is not borrowed by this member"})
        ELSE IF ~t.ok
        THEN Raise("return_book", member_id, book_id, "TransactionError",
                   {"Failed to process return transaction"})
        ELSE IF ~br.ok
        THEN /\ members' = Put(members, member_id, fined)
             /\ last' = Call("return_book", member_id, book_id, "TransactionError",
                             {"Failed to update book status"}, None)
             /\ UNCHANGED <<books, transactions, now, ids, disk, txns>>
        ELSE IF ~mr.ok
        THEN /\ members' = Put(members, member_id, fined)
             /\ books' = Put(books, book_id, br.book)
             /\ last' = Call("return_book", member_id, book_id, "TransactionError",
                             {"Failed to update member borrowed books"}, None)
             /\ UNCHANGED <<transactions, now, ids, disk, txns>>
        ELSE /\ UNCHANGED ids
             /\ Commit("return_book", member_id, book_id,
                       Put(books, book_id, br.book),
                       Put(members, member_id, mr.member),
                       Append(transactions, t1))

\* a variant that counts the renewals of the current loan only: those stored after
\* the pair's latest borrow
RenewalCount_OfThisLoan(member_id, book_id) ==
    LET borrows == {i \in DOMAIN transactions :
                       /\ transactions[i].member_id = member_id
                       /\ transactions[i].book_id = book_id
                       /\ transactions[i].transaction_type = "borrow"}
    IN  Cardinality({i \in DOMAIN transactions :
            /\ transactions[i].member_id = member_id
            /\ transactions[i].book_id = book_id
            /\ transactions[i].transaction_type = "renew"
            /\ transactions[i].status = "completed"
            /\ \A j \in borrows : j < i})

RenewalCount(member_id, book_id) ==
    Cardinality({i \in DOMAIN transactions :
        /\ transactions[i].member_id = member_id
        /\ transactions[i].book_id = book_id
        /\ transactions[i].transaction_type = "renew"
        /\ transactions[i].status = "completed"})

\* a variant that counts the new loan period from today
renew_book_FromToday(member_id, book_id) ==
    IF member_id \notin DOMAIN members
    THEN Raise("renew_book", member_id, book_id, "MemberNotFoundError", {})
    ELSE IF book_id \notin DOMAIN books
    THEN Raise("renew_book", member_id, book_id, "BookNotFoundError", {})
    ELSE
    LET member == members[member_id]
        book == books[book_id]
        new_due_date == now + default_borrow_days
        t == Transaction_process_transaction(
                 NewTransaction(member_id, "renew", book_id, 0, new_due_date), "system")
    IN  IF ~InSeq(member.borrowed_books, book_id)
        THEN Raise("renew_book", member_id, book_id, "TransactionError",
                   {"Member does not have this book borrowed"})
        ELSE IF book.due_date # NoneDate /\ now > book.due_date
        THEN Raise("renew_book", member_id, book_id, "TransactionError",
                   {"Cannot renew overdue book"})
        ELSE IF RenewalCount(member_id, book_id) >= max_renewals
        THEN Raise("renew_book", member_id, book_id, "TransactionError",
                   {"Maximum renewals reached"})
        ELSE IF book.due_date = NoneDate
        THEN \* None + timedelta(...)
             Raise("renew_book", member_id, book_id, "TypeError", {})
        ELSE IF ~t.ok
        THEN Raise("renew_book", member_id, book_id, "TransactionError",
                   {"Failed to process renewal transaction"})
        ELSE /\ UNCHANGED ids
             /\ Commit("renew_book", member_id, book_id,
                       Put(books, book_id, [book EXCEPT !.due_date = new_due_date]),
                       members, Append(transactions, t.t))

\* a variant that takes the due day itself for overdue
renew_book_DueDayIsOverdue(member_id, book_id) ==
    IF member_id \notin DOMAIN members
    THEN Raise("renew_book", member_id, book_id, "MemberNotFoundError", {})
    ELSE IF book_id \notin DOMAIN books
    THEN Raise("renew_book", member_id, book_id, "BookNotFoundError", {})
    ELSE
    LET member == members[member_id]
        book == books[book_id]
        new_due_date == book.due_date + default_borrow_days
        t == Transaction_process_transaction(
                 NewTransaction(member_id, "renew", book_id, 0, new_due_date), "system")
    IN  IF ~InSeq(member.borrowed_books, book_id)
        THEN Raise("renew_book", member_id, book_id, "TransactionError",
                   {"Member does not have this book borrowed"})
        ELSE IF book.due_date # NoneDate /\ now >= book.due_date
        THEN Raise("renew_book", member_id, book_id, "TransactionError",
                   {"Cannot renew overdue book"})
        ELSE IF RenewalCount(member_id, book_id) >= max_renewals
        THEN Raise("renew_book", member_id, book_id, "TransactionError",
                   {"Maximum renewals reached"})
        ELSE IF book.due_date = NoneDate
        THEN \* None + timedelta(...)
             Raise("renew_book", member_id, book_id, "TypeError", {})
        ELSE IF ~t.ok
        THEN Raise("renew_book", member_id, book_id, "TransactionError",
                   {"Failed to process renewal transaction"})
        ELSE /\ UNCHANGED ids
             /\ Commit("renew_book", member_id, book_id,
                       Put(books, book_id, [book EXCEPT !.due_date = new_due_date]),
                       members, Append(transactions, t.t))

renew_book(member_id, book_id) ==
    IF member_id \notin DOMAIN members
    THEN Raise("renew_book", member_id, book_id, "MemberNotFoundError", {})
    ELSE IF book_id \notin DOMAIN books
    THEN Raise("renew_book", member_id, book_id, "BookNotFoundError", {})
    ELSE
    LET member == members[member_id]
        book == books[book_id]
        new_due_date == book.due_date + default_borrow_days
        t == Transaction_process_transaction(
                 NewTransaction(member_id, "renew", book_id, 0, new_due_date), "system")
    IN  IF ~InSeq(member.borrowed_books, book_id)
        THEN Raise("renew_book", member_id, book_id, "TransactionError",
                   {"Member does not have this book borrowed"})
        ELSE IF book.due_date # NoneDate /\ now > book.due_date
        THEN Raise("renew_book", member_id, book_id, "TransactionError",
                   {"Cannot renew overdue book"})
        ELSE IF RenewalCount(member_id, book_id) >= max_renewals
        THEN Raise("renew_book", member_id, book_id, "TransactionError",
                   {"Maximum renewals reached"})
        ELSE IF book.due_date = NoneDate
        THEN \* None + timedelta(...)
             Raise("renew_book", member_id, book_id, "TypeError", {})
        ELSE IF ~t.ok
        THEN Raise("renew_book", member_id, book_id, "TransactionError",
                   {"Failed to process renewal transaction"})
        ELSE /\ UNCHANGED ids
             /\ Commit("renew_book", member_id, book_id,
                       Put(books, book_id, [book EXCEPT !.due_date = new_due_date]),
                       members, Append(transactions, t.t))

pay_fine(member_id, amount) ==
    IF member_id \notin DOMAIN members
    THEN Raise("pay_fine", member_id, None, "MemberNotFoundError", {})
    ELSE
    LET member == members[member_id]
        t == Transaction_process_transaction(
                 NewTransaction(member_id, "fine_payment", None, amount, NoneDate),
                 "system")
        paid == Member_pay_fine(member, amount)
    IN  IF amount <= 0
        THEN Raise("pay_fine", member_id, None, "TransactionError",
                   {"Payment amount must be positive"})
        ELSE IF amount > member.fine_amount
        THEN Raise("pay_fine", member_id, None, "TransactionError",
                   {"Payment amount exceeds fine amount"})
        ELSE IF ~t.ok
        THEN Raise("pay_fine", member_id, None, "TransactionError",
                   {"Failed to process payment transaction"})
        ELSE IF paid.err # None
        THEN Raise("pay_fine", member_id, None, paid.err, {})
        ELSE /\ UNCHANGED ids
             /\ Commit("pay_fine", member_id, None, books,
                       Put(members, member_id, paid.member),
                       Append(transactions, t.t))

-----------------------------------------------------------------------------
(* Calls on the entities the service hands out (get_book / get_member) *)

\* service.get_book(book_id).set_status(status)
set_status(book_id, status) ==
    /\ book_id \in DOMAIN books
    /\ LET r == Book_set_status(books[book_id], status)
       IN  /\ books' = Put(books, book_id, r.book)
           /\ last' = Call("set_status", None, book_id, None, {},
                           IF r.ok THEN "True" ELSE "False")
    /\ UNCHANGED <<members, transactions, now, ids, disk, txns>>

\* service.get_member(member_id).add_fine(amount)
add_fine(member_id, amount) ==
    /\ member_id \in DOMAIN members
    /\ LET r == Member_add_fine(members[member_id], amount)
       IN  /\ members' = Put(members, member_id, r.member)
           /\ last' = Call("add_fine", member_id, None, r.err, {}, None)
    /\ UNCHANGED <<books, transactions, now, ids, disk, txns>>

\* service.get_member(member_id).pay_fine(amount)
member_pay_fine(member_id, amount) ==
    /\ member_id \in DOMAIN members
    /\ LET r == Member_pay_fine(members[member_id], amount)
       IN  /\ members' = Put(members, member_id, r.member)
           /\ last' = Call("member_pay_fine", member_id, None, r.err, {},
                           IF r.err = None THEN r.member.fine_amount ELSE None)
    /\ UNCHANGED <<books, transactions, now, ids, disk, txns>>

\* service.get_member(member_id).membership_type = value
set_membership_type(member_id, value) ==
    /\ member_id \in DOMAIN members
    /\ LET r == Member_set_membership_type(members[member_id], value)
       IN  /\ members' = Put(members, member_id, r.member)
           /\ last' = Call("set_membership_type", member_id, None, r.err, {}, None)
    /\ UNCHANGED <<books, transactions, now, ids, disk, txns>>

\* service.get_member(member_id).suspend_membership()
suspend_membership(member_id) ==
    /\ member_id \in DOMAIN members
    /\ members' = Put(members, member_id, [members[member_id] EXCEPT !.status = "suspended"])
    /\ last' = Call("suspend_membership", member_id, None, None, {}, None)
    /\ UNCHANGED <<books, transactions, now, ids, disk, txns>>

\* service.get_member(member_id).reactivate_membership()
reactivate_membership(member_id) ==
    /\ member_id \in DOMAIN members
    /\ LET member == members[member_id]
           ok == member.status = "suspended" /\ Member_is_membership_valid(member)
       IN  /\ members' = Put(members, member_id,
                             IF ok THEN [member EXCEPT !.status = "active"] ELSE member)
           /\ last' = Call("reactivate_membership", member_id, None, None, {},
                           IF ok THEN "True" ELSE "False")
    /\ UNCHANGED <<books, transactions, now, ids, disk, txns>>

\* txns[i].calculate_fine(rate); the caller sees the amount returned
calculate_fine(i, rate) ==
    /\ i \in DOMAIN txns
    /\ last' = [op |-> "calculate_fine", err |-> None, msg |-> {},
                ret |-> Transaction_calculate_fine(txns[i], rate)]
    /\ UNCHANGED <<books, members, transactions, now, ids, disk, txns>>

\* time passes
Tick(days) ==
    /\ now' = now + days
    /\ UNCHANGED <<books, members, transactions, ids, disk, last, txns>>

-----------------------------------------------------------------------------
(* LibraryService: searches, listings and statistics *)

\* str.lower() of the names the model uses
Lower(s) ==
    CASE s = "T" -> "t"
      [] s = "U" -> "u"
      [] s = "A" -> "a"
      [] s = "F" -> "f"
      [] s = "G" -> "g"
      [] s = "L" -> "l"
      [] OTHER -> s

\* query in field, for the one-letter queries "t", "u", "g", "x" and the field
\* values the model uses: a one-letter field holds its own letter, and the words
\* of the enumerations hold their letters
Contains(field, query) ==
    \/ query = field
    \/ <<query, field>> \in
          {<<"t", "other">>, <<"t", "student">>, <<"t", "staff">>, <<"t", "faculty">>,
           <<"u", "student">>, <<"u", "public">>, <<"u", "faculty">>,
           <<"u", "premium">>}

\* Book.matches_search; the category is BookCategory.OTHER, publisher and
\* description are empty
Book_matches_search(book, query) ==
    LET q == Strip(Lower(query))
    IN  \/ q = ""
        \/ \E field \in {Lower(book.title), Lower(book.author), Lower(book.isbn),
                          "", "other"} : Contains(field, q)

\* Member.matches_search; student id, email and phone are empty, and a
\* one-letter query is in the full name when it is in one of the two names
Member_matches_search(member, query) ==
    LET q == Strip(Lower(query))
    IN  \/ q = ""
        \/ \E field \in {Lower(member.first_name), Lower(member.last_name), "",
                          member.membership_type} : Contains(field, q)

\* a read-only call: it returns ret
Return(op, ret) ==
    /\ last' = [op |-> op, err |-> None, msg |-> {}, ret |-> ret]
    /\ UNCHANGED <<books, members, transactions, now, ids, disk, txns>>

\* the result of a search or listing is followed as the set of the ids of the
\* entities in the list
search_books(query, status, available_only) ==
    Return("search_books",
           {id \in DOMAIN books :
               /\ query # "" => Book_matches_search(books[id], query)
               /\ status # None => books[id].status = status
               /\ available_only => Book_is_available(books[id])})

get_all_books == Return("get_all_books", DOMAIN books)

search_members(query, membership_type, status) ==
    Return("search_members",
           {id \in DOMAIN members :
               /\ query # "" => Member_matches_search(members[id], query)
               /\ membership_type # None => members[id].membership_type = membership_type
               /\ status # None => members[id].status = status})

get_all_members == Return("get_all_members", DOMAIN members)

\* the books get_overdue_books looks at: borrowed, with a due date that is past
PastDue(book) == book.status = "borrowed" /\ book.due_date # NoneDate /\ now > book.due_date

\* the loop over the transactions: the first completed borrow of the book by the
\* member in the order of insertion, 0 when there is none
FirstBorrowTransaction(member_id, book_id) ==
    LET found == {i \in 1..Len(transactions) :
                     /\ transactions[i].member_id = member_id
                     /\ transactions[i].book_id = book_id
                     /\ transactions[i].transaction_type = "borrow"
                     /\ transactions[i].status = "completed"}
    IN  IF found = {} THEN 0 ELSE CHOOSE i \in found : \A j \in found : i <= j

\* overdue_items, as <<book id, member id, index of the transaction>>
OverdueItems ==
    {<<b, books[b].borrowed_by, FirstBorrowTransaction(books[b].borrowed_by, b)>> :
        b \in {id \in DOMAIN books :
                   /\ PastDue(books[id])
                   /\ FirstBorrowTransaction(books[id].borrowed_by, id) # 0}}

\* self.get_member(book.borrowed_by) raises for a borrower that is not a member
OverdueBorrowerMissing ==
    \E b \in DOMAIN books : PastDue(books[b]) /\ books[b].borrowed_by \notin DOMAIN members

\* a variant that marks the transactions it returns as overdue
get_overdue_books_MarksOverdue ==
    IF OverdueBorrowerMissing
    THEN Raise("get_overdue_books", None, None, "MemberNotFoundError", {})
    ELSE /\ last' = [op |-> "get_overdue_books", err |-> None, msg |-> {},
                      ret |-> OverdueItems]
         /\ transactions' =
               [i \in DOMAIN transactions |->
                   IF \E item \in OverdueItems : item[3] = i
                   THEN [transactions[i] EXCEPT !.status = "overdue"]
                   ELSE transactions[i]]
         /\ UNCHANGED <<books, members, now, ids, disk, txns>>

get_overdue_books ==
    IF OverdueBorrowerMissing
    THEN Raise("get_overdue_books", None, None, "MemberNotFoundError", {})
    ELSE Return("get_overdue_books", OverdueItems)

RECURSIVE SumFines(_)
SumFines(S) ==
    IF S = {} THEN 0
    ELSE LET m == CHOOSE x \in S : TRUE
         IN  members[m].fine_amount + SumFines(S \ {m})

\* a stored transaction is created and processed in the same call, so the day of
\* processed_at is the day of created_at
get_library_statistics ==
    IF OverdueBorrowerMissing
    THEN Raise("get_library_statistics", None, None, "MemberNotFoundError", {})
    ELSE Return("get_library_statistics",
                [books |-> [total |-> Cardinality(DOMAIN books),
                            available |-> Cardinality({b \in DOMAIN books :
                                                         Book_is_available(books[b])}),
                            borrowed |-> Cardinality({b \in DOMAIN books :
                                                        books[b].status = "borrowed"}),
                            overdue |-> Cardinality(OverdueItems)],
                 members |-> [total |-> Cardinality(DOMAIN members),
                              active |-> Cardinality({m \in DOMAIN members :
                                                        Member_is_active(members[m])})],
                 finances |-> [total_fines |-> SumFines(DOMAIN members)],
                 transactions |-> [today |-> Cardinality({i \in 1..Len(transactions) :
                                                 transactions[i].processed_at = now}),
                                   total |-> Len(transactions)]])

-----------------------------------------------------------------------------
(* Validator (src/utils/validators.py): the ISBN rule *)

\* A string is the sequence of its characters.
Digits == {"0", "1", "2", "3", "4", "5", "6", "7", "8", "9"}

\* int(digit)
DigitValue(c) ==
    CASE c = "0" -> 0 [] c = "1" -> 1 [] c = "2" -> 2 [] c = "3" -> 3 [] c = "4" -> 4
      [] c = "5" -> 5 [] c = "6" -> 6 [] c = "7" -> 7 [] c = "8" -> 8 [] c = "9" -> 9

\* str(n) for n in 0..10, as the text that is compared with one character
DigitText(n) ==
    CASE n = 0 -> "0" [] n = 1 -> "1" [] n = 2 -> "2" [] n = 3 -> "3" [] n = 4 -> "4"
      [] n = 5 -> "5" [] n = 6 -> "6" [] n = 7 -> "7" [] n = 8 -> "8" [] n = 9 -> "9"
      [] n = 10 -> "10"

\* str.upper() of one character
Upper(c) == IF c = "x" THEN "X" ELSE c

\* str.isdigit()
IsDigitText(text) == Len(text) > 0 /\ \A i \in 1..Len(text) : text[i] \in Digits

\* re.sub(r'[\s\-]', '', value)
RECURSIVE RemoveDashesAndSpaces(_)
RemoveDashesAndSpaces(text) ==
    IF text = <<>> THEN <<>>
    ELSE IF Head(text) \in {" ", "-"} THEN RemoveDashesAndSpaces(Tail(text))
    ELSE <<Head(text)>> \o RemoveDashesAndSpaces(Tail(text))

\* sum(int(digit) * weight[i] for i, digit in enumerate(text)), i from 0
RECURSIVE WeightedSum(_, _, _)
WeightedSum(text, weight, i) ==
    IF text = <<>> THEN 0
    ELSE DigitValue(Head(text)) * weight[i] + WeightedSum(Tail(text), weight, i + 1)

Validator_is_valid_isbn10(isbn) ==
    IF Len(isbn) # 10 THEN FALSE
    ELSE IF ~(IsDigitText(SubSeq(isbn, 1, 9))
              /\ (isbn[10] \in Digits \/ Upper(isbn[10]) = "X"))
    THEN FALSE
    ELSE LET weight == [i \in 0..8 |-> 10 - i]
             total == WeightedSum(SubSeq(isbn, 1, 9), weight, 0)
             checksum == total % 11
             check_digit == IF checksum = 1 THEN "X"
                            ELSE IF checksum # 0 THEN DigitText(11 - checksum)
                            ELSE "0"
         IN  Upper(isbn[10]) = check_digit

\* a variant with the weights 3 and 1 the other way round
Validator_is_valid_isbn13_WeightsSwapped(isbn) ==
    IF Len(isbn) # 13 \/ ~IsDigitText(isbn) THEN FALSE
    ELSE LET weight == [i \in 0..11 |-> IF i % 2 = 0 THEN 3 ELSE 1]
             total == WeightedSum(SubSeq(isbn, 1, 12), weight, 0)
             checksum == (10 - (total % 10)) % 10
         IN  DigitValue(isbn[13]) = checksum

Validator_is_valid_isbn13(isbn) ==
    IF Len(isbn) # 13 \/ ~IsDigitText(isbn) THEN FALSE
    ELSE LET weight == [i \in 0..11 |-> IF i % 2 = 0 THEN 1 ELSE 3]
             total == WeightedSum(SubSeq(isbn, 1, 12), weight, 0)
             checksum == (10 - (total % 10)) % 10
         IN  DigitValue(isbn[13]) = checksum

\* Validator.isbn on a string value: the errors of the validator afterwards
Validator_isbn_errors(value) ==
    LET cleaned == RemoveDashesAndSpaces(value)
    IN  IF ~(Validator_is_valid_isbn10(cleaned) \/ Validator_is_valid_isbn13(cleaned))
        THEN {"must be a valid ISBN"}
        ELSE {}

\* validate(value, "ISBN").isbn(): the validator it returns
Validator_isbn(value) ==
    /\ last' = [op |-> "isbn", err |-> None, msg |-> Validator_isbn_errors(value),
                 ret |-> value]
    /\ UNCHANGED <<books, members, transactions, now, ids, disk, txns>>

-----------------------------------------------------------------------------
(* Transaction objects of their own: the life cycle of one transaction *)

TxnCall(op, i, ok) ==
    [op |-> op, err |-> None, msg |-> {}, ret |-> IF ok THEN "True" ELSE "False"]

new_transaction(member_id, transaction_type, book_id, due_date) ==
    /\ txns' = Append(txns, NewTransaction(member_id, transaction_type, book_id, 0,
                                           due_date))
    /\ last' = [TxnCall("Transaction", Len(txns) + 1, TRUE) EXCEPT !.ret = None]
    /\ UNCHANGED <<books, members, transactions, now, ids, disk>>

process_transaction(i, processed_by) ==
    /\ i \in DOMAIN txns
    /\ LET r == Transaction_process_transaction(txns[i], processed_by)
       IN  /\ txns' = [txns EXCEPT ![i] = r.t]
           /\ last' = TxnCall("process_transaction", i, r.ok)
    /\ UNCHANGED <<books, members, transactions, now, ids, disk>>

cancel_transaction(i, reason) ==
    /\ i \in DOMAIN txns
    /\ LET r == Transaction_cancel_transaction(txns[i], reason)
       IN  /\ txns' = [txns EXCEPT ![i] = r.t]
           /\ last' = TxnCall("cancel_transaction", i, r.ok)
    /\ UNCHANGED <<books, members, transactions, now, ids, disk>>

fail_transaction(i, reason) ==
    /\ i \in DOMAIN txns
    /\ LET r == Transaction_fail_transaction(txns[i], reason)
       IN  /\ txns' = [txns EXCEPT ![i] = r.t]
           /\ last' = TxnCall("fail_transaction", i, r.ok)
    /\ UNCHANGED <<books, members, transactions, now, ids, disk>>

-----------------------------------------------------------------------------
(* Specifications *)

\* LibraryService("data") on an empty data directory
Init ==
    /\ books = EmptyMap
    /\ members = EmptyMap
    /\ transactions = <<>>
    /\ now = 0
    /\ ids = [book |-> 0, member |-> 0]
    /\ disk = NoFiles(FALSE)
    /\ last = Call("init", None, None, None, {}, None)
    /\ txns = <<>>

IsbnNames == <<"i1", "i2", "i3", "i4", "i5", "i6">>

\* the ids a caller may pass: every id handed out so far, and one that never was
KnownBookIds == {BookIdNames[i] : i \in 1..ids.book} \cup {InvalidId}
KnownMemberIds == {MemberIdNames[i] : i \in 1..ids.member} \cup {InvalidId}

BookForms ==
    {<<"T", "A", IsbnNames[i], 0>> : i \in {1, ids.book + 1}}
    \cup {<<" ", "A", IsbnNames[1], 0>>, <<"T", "A", IsbnNames[1], -1>>}

MainTypes == {"public"}

MemberForms ==
    {<<"F", "L", t>> : t \in MainTypes} \cup {<<"", "L", "public">>}

StatusInputs == {"available", "borrowed", "lost"}

\* a book whose borrow history may still grow
HistoryRoom(b) == b \in DOMAIN books => Len(books[b].borrow_history) < MaxHistory

TickSteps == {default_borrow_days, default_borrow_days + 1}

Next ==
    \/ \E f \in BookForms : ids.book < MaxBooks /\ add_book(f[1], f[2], f[3], f[4])
    \/ \E b \in KnownBookIds : delete_book(b)
    \/ \E f \in MemberForms : ids.member < MaxMembers /\ add_member(f[1], f[2], f[3])
    \/ \E m \in KnownMemberIds : delete_member(m)
    \/ \E m \in KnownMemberIds, b \in KnownBookIds :
           Len(transactions) < MaxTrans /\ HistoryRoom(b) /\ borrow_book(m, b)
    \/ \E m \in KnownMemberIds, b \in KnownBookIds :
           Len(transactions) < MaxTrans /\ HistoryRoom(b) /\ return_book(m, b)
    \/ \E m \in KnownMemberIds, b \in KnownBookIds :
           Len(transactions) < MaxTrans /\ renew_book(m, b)
    \/ \E m \in KnownMemberIds, a \in {0, Money(1), Money(MaxFineUnits + 1)} :
           Len(transactions) < MaxTrans /\ pay_fine(m, a)
    \/ \E b \in KnownBookIds, s \in StatusInputs : set_status(b, s)
    \/ \E m \in KnownMemberIds, a \in {Money(1), 0 - Money(1)} :
           /\ m \in DOMAIN members
           /\ members[m].fine_amount + a <= Money(MaxFineUnits)
           /\ add_fine(m, a)

Spec == Init /\ [][Next]_vars

\* The service while time passes: loans that fall due and become overdue
NextTime ==
    \/ \E f \in BookForms : ids.book < MaxBooks /\ add_book(f[1], f[2], f[3], f[4])
    \/ \E f \in MemberForms : ids.member < MaxMembers /\ add_member(f[1], f[2], f[3])
    \/ \E m \in KnownMemberIds, b \in KnownBookIds :
           Len(transactions) < MaxTrans /\ HistoryRoom(b) /\ borrow_book(m, b)
    \/ \E m \in KnownMemberIds, b \in KnownBookIds :
           Len(transactions) < MaxTrans /\ HistoryRoom(b) /\ return_book(m, b)
    \/ \E m \in KnownMemberIds, b \in KnownBookIds :
           Len(transactions) < MaxTrans /\ renew_book(m, b)
    \/ \E m \in KnownMemberIds, a \in {0, Money(1), Money(MaxFineUnits + 1)} :
           Len(transactions) < MaxTrans /\ pay_fine(m, a)
    \/ \E d \in TickSteps : now + d <= MaxTime /\ Tick(d)

SpecTime == Init /\ [][NextTime]_vars

\* One member who borrows up to the limit of the membership type
LoanBookIds == {BookIdNames[i] : i \in 1..ids.book}
LoanMemberIds == {MemberIdNames[i] : i \in 1..ids.member}

LoanTypes == {"public", "student"}

NextLoans ==
    \/ ids.book < LoanBooks /\ add_book("T", "A", IsbnNames[ids.book + 1], 0)
    \/ \E t \in LoanTypes : ids.member < LoanMembers /\ add_member("F", "L", t)
    \/ \E m \in LoanMemberIds, t \in LoanTypes :
           update_member(m, <<<<"membership_type", t>>>>)
    \/ \E m \in LoanMemberIds, b \in LoanBookIds :
           Len(transactions) < LoanTrans /\ borrow_book(m, b)
    \/ \E m \in LoanMemberIds, b \in LoanBookIds :
           Len(transactions) < LoanTrans /\ return_book(m, b)

SpecLoans == Init /\ [][NextLoans]_vars

\* Transaction objects on their own
TxnTypes == {"borrow", "return", "fine_payment"}

NextTxn ==
    \/ \E t \in TxnTypes :
           Len(txns) < MaxTxnObjects /\ new_transaction("m1", t, "b1", NoneDate)
    \/ \E i \in DOMAIN txns, p \in {"system", " "} : process_transaction(i, p)
    \/ \E i \in DOMAIN txns, r \in {"", "r"} : cancel_transaction(i, r)
    \/ \E i \in DOMAIN txns, r \in {"", "r"} : fail_transaction(i, r)

SpecTxn == Init /\ [][NextTxn]_vars

\* The catalogue: books and members are added, updated and deleted
CatBookForms ==
    {<<"T", "A", i, 0>> : i \in {"i1", " i1", "i2"}}

BookUpdates ==
    {<<<<"title", "U">>>>,
     <<<<"title", "U">>, <<"pages", 0 - 1>>>>,
     <<<<"pages", 1>>, <<"author", " ">>>>,
     <<<<"pages", 1>>>>,
     <<<<"isbn", "i2">>>>}

MemberUpdates ==
    {<<<<"first_name", "G">>>>,
     <<<<"first_name", "G">>, <<"last_name", "">>>>,
     <<<<"membership_type", "student">>, <<"last_name", " ">>>>,
     <<<<"membership_type", "public">>>>}

NextCatalog ==
    \/ \E f \in CatBookForms : ids.book < CatBooks /\ add_book(f[1], f[2], f[3], f[4])
    \/ \E b \in KnownBookIds, k \in BookUpdates : update_book(b, k)
    \/ \E b \in KnownBookIds : delete_book(b)
    \/ \E f \in MemberForms : ids.member < CatMembers /\ add_member(f[1], f[2], f[3])
    \/ \E m \in KnownMemberIds, k \in MemberUpdates : update_member(m, k)

SpecCatalog == Init /\ [][NextCatalog]_vars

\* Who may borrow: a member is fined, suspended, at the limit, or the membership
\* runs out a year after it started
EligTickSteps == {Years(1), Years(1) + 1}

NextEligible ==
    \/ ids.book < EligBooks /\ add_book("T", "A", IsbnNames[ids.book + 1], 0)
    \/ ids.member < EligMembers /\ add_member("F", "L", "public")
    \/ \E m \in KnownMemberIds, b \in KnownBookIds :
           Len(transactions) < EligTrans /\ borrow_book(m, b)
    \/ \E m \in LoanMemberIds :
           members[m].fine_amount + Money(1) <= Money(MaxFineUnits) /\ add_fine(m, Money(1))
    \/ \E m \in LoanMemberIds : Len(transactions) < EligTrans /\ pay_fine(m, Money(1))
    \/ \E m \in LoanMemberIds : suspend_membership(m)
    \/ \E m \in LoanMemberIds : reactivate_membership(m)
    \/ \E d \in EligTickSteps : now + d <= EligMaxTime /\ Tick(d)

SpecEligible == Init /\ [][NextEligible]_vars

\* One loan after the other of the same book to the same member, with renewals
NextRenew ==
    \/ ids.book < RenewBooks /\ add_book("T", "A", IsbnNames[ids.book + 1], 0)
    \/ ids.member < RenewMembers /\ add_member("F", "L", "public")
    \/ \E m \in KnownMemberIds, b \in KnownBookIds :
           Len(transactions) < RenewTrans /\ borrow_book(m, b)
    \/ \E m \in KnownMemberIds, b \in KnownBookIds :
           Len(transactions) < RenewTrans /\ return_book(m, b)
    \/ \E m \in KnownMemberIds, b \in KnownBookIds :
           Len(transactions) < RenewTrans /\ renew_book(m, b)
    \/ \E d \in TickSteps : now + d <= MaxTime /\ Tick(d)

SpecRenew == Init /\ [][NextRenew]_vars

\* The fine of one transaction, created on the first day, as the days go by
FineRates == {Money(1), 50, 25}

FineTypes == {"borrow", "return"}

NextFine ==
    \/ \E t \in FineTypes :
           now = 0 /\ Len(txns) < FineTxns /\ new_transaction("m1", t, "b1", NoneDate)
    \/ \E i \in DOMAIN txns : process_transaction(i, "system")
    \/ \E i \in DOMAIN txns, r \in FineRates : calculate_fine(i, r)
    \/ now + 1 <= FineMaxTime /\ Tick(1)

SpecFine == Init /\ [][NextFine]_vars

\* Every operation that takes an id, called with ids that are in the store, that
\* were deleted from it, or that never were in it
NextLookup ==
    \/ ids.book < LookBooks /\ add_book("T", "A", IsbnNames[ids.book + 1], 0)
    \/ ids.member < LookMembers /\ add_member("F", "L", "public")
    \/ \E b \in KnownBookIds : get_book(b)
    \/ \E m \in KnownMemberIds : get_member(m)
    \/ \E b \in KnownBookIds, k \in BookUpdates : update_book(b, k)
    \/ \E m \in KnownMemberIds, k \in MemberUpdates : update_member(m, k)
    \/ \E b \in KnownBookIds : delete_book(b)
    \/ \E m \in KnownMemberIds : delete_member(m)
    \/ \E m \in KnownMemberIds, b \in KnownBookIds :
           Len(transactions) < LookTrans /\ borrow_book(m, b)
    \/ \E m \in KnownMemberIds, b \in KnownBookIds :
           Len(transactions) < LookTrans /\ return_book(m, b)
    \/ \E m \in KnownMemberIds, b \in KnownBookIds :
           Len(transactions) < LookTrans /\ renew_book(m, b)
    \/ \E m \in KnownMemberIds, a \in {0, Money(1)} :
           Len(transactions) < LookTrans /\ pay_fine(m, a)

SpecLookup == Init /\ [][NextLookup]_vars

\* The mutating operations of the service, with the documents of the three files
\* followed
InitSnapshot ==
    /\ books = EmptyMap
    /\ members = EmptyMap
    /\ transactions = <<>>
    /\ now = 0
    /\ ids = [book |-> 0, member |-> 0]
    /\ disk = NoFiles(TRUE)
    /\ last = Call("init", None, None, None, {}, None)
    /\ txns = <<>>

SnapBookUpdates == {<<<<"title", "U">>>>, <<<<"pages", 0 - 1>>>>}

SnapMemberUpdates == {<<<<"first_name", "G">>>>, <<<<"last_name", " ">>>>}

NextSnapshot ==
    \/ ids.book < SnapBooks /\ add_book("T", "A", IsbnNames[ids.book + 1], 0)
    \/ ids.member < SnapMembers /\ add_member("F", "L", "public")
    \/ \E b \in DOMAIN books, k \in SnapBookUpdates : update_book(b, k)
    \/ \E m \in DOMAIN members, k \in SnapMemberUpdates : update_member(m, k)
    \/ \E b \in DOMAIN books : delete_book(b)
    \/ \E m \in DOMAIN members : delete_member(m)
    \/ \E m \in DOMAIN members, b \in DOMAIN books :
           Len(transactions) < SnapTrans /\ borrow_book(m, b)
    \/ \E m \in DOMAIN members, b \in DOMAIN books :
           Len(transactions) < SnapTrans /\ return_book(m, b)
    \/ \E m \in DOMAIN members, b \in DOMAIN books :
           Len(transactions) < SnapTrans /\ renew_book(m, b)
    \/ \E m \in DOMAIN members :
           Len(transactions) < SnapTrans /\ pay_fine(m, Money(1))
    \/ \E m \in DOMAIN members :
           members[m].fine_amount < Money(1) /\ add_fine(m, Money(1))

SpecSnapshot == InitSnapshot /\ [][NextSnapshot]_vars

\* Loans, the passing of time, and the searches, listings and statistics
ReadQueries == {"", " ", "U", "t", "G", "u", "x"}

NextReads ==
    \/ \E title \in {"T", "U"} :
           ids.book < ReadBooks /\ add_book(title, "A", IsbnNames[ids.book + 1], 0)
    \/ ids.member < ReadMembers /\ add_member("F", "L", "public")
    \/ \E m \in DOMAIN members, b \in DOMAIN books :
           Len(transactions) < ReadTrans /\ borrow_book(m, b)
    \/ \E m \in DOMAIN members, b \in DOMAIN books :
           Len(transactions) < ReadTrans /\ return_book(m, b)
    \/ \E d \in TickSteps : now + d <= MaxTime /\ Tick(d)
    \/ \E q \in ReadQueries, s \in {None, "borrowed"}, a \in BOOLEAN :
           search_books(q, s, a)
    \/ get_all_books
    \/ \E q \in ReadQueries, t \in {None, "student"}, s \in {None, "active"} :
           search_members(q, t, s)
    \/ get_all_members
    \/ get_overdue_books
    \/ get_library_statistics

SpecReads == Init /\ [][NextReads]_vars

\* Books and members of every kind, valid or not, handed to add_book and add_member
ValidBookForms ==
    {<<title, author, IsbnNames[ids.book + 1], pages>> :
        title \in {"T", " "}, author \in {"A", ""}, pages \in {0, 0 - 1}}

ValidEmails == {"", "a@b.cd", "invalid-email"}

ValidPhones == {"", "0123456789", "123"}

ValidMemberForms ==
    {<<first_name, last_name, ContactInfo(email, phone)>> :
        first_name \in {"F", ""}, last_name \in {"L", " "},
        email \in ValidEmails, phone \in ValidPhones}

NextValidate ==
    \/ \E f \in ValidBookForms :
           ids.book < ValidBooks /\ add_book(f[1], f[2], f[3], f[4])
    \/ \E f \in ValidMemberForms :
           ids.member < ValidMembers /\ add_member_kwargs(f[1], f[2], "public", f[3])

SpecValidate == Init /\ [][NextValidate]_vars

\* The ISBN rule on the three numbers of test_validators and of the
\* documentation, on an ISBN-10 that ends in X, and on every text that differs
\* from one of them in one character or ends early
Isbn13Good == <<"9", "7", "8", "-", "3", "-", "1", "6", "-", "1", "4", "8", "4", "1", "0", "-", "0">>
Isbn13Bad == <<"9", "7", "8", "-", "3", "-", "1", "6", "-", "1", "4", "8", "4", "1", "0", "-", "1">>
Isbn10Good == <<"0", "-", "3", "0", "6", "-", "4", "0", "6", "1", "5", "-", "2">>
Isbn10X == <<"0", "-", "8", "0", "4", "4", "-", "2", "9", "5", "7", "-", "X">>

IsbnChars == Digits \cup {"X", "x", "-", " ", "A"}

IsbnInputs ==
    LET Bases == {Isbn13Good, Isbn13Bad, Isbn10Good, Isbn10X}
    IN  Bases
        \cup UNION {{[b EXCEPT ![i] = c] : i \in 1..Len(b), c \in IsbnChars} :
                       b \in {Isbn13Good, Isbn10Good, Isbn10X}}
        \cup UNION {{SubSeq(b, 1, n) : n \in 0..Len(b)} : b \in Bases}

NextIsbn == \E value \in IsbnInputs : Validator_isbn(value)

SpecIsbn == Init /\ [][NextIsbn]_vars

\* Members of every type whose type is changed, by update_member and by the
\* setter, on the day they joined and later
TypeUpdates ==
    {<<<<"membership_type", t>>>> : t \in MembershipType}
    \cup {<<<<"membership_type", t>>, <<"last_name", " ">>>> : t \in {"staff"}}

NextTypes ==
    \/ \E t \in MembershipType : ids.member < TypeMembers /\ add_member("F", "L", t)
    \/ \E m \in DOMAIN members, k \in TypeUpdates : update_member(m, k)
    \/ \E m \in DOMAIN members, t \in MembershipType \cup {None} :
           set_membership_type(m, t)
    \/ \E d \in TickSteps : now + d <= MaxTime /\ Tick(d)

SpecTypes == Init /\ [][NextTypes]_vars

\* One member and one book: late returns, fines added and fines paid, through
\* the service and on the member itself
BalAmounts == {0 - Money(1), Money(1), Money(BalFineUnits)}

NextBalance ==
    \/ ids.book < 1 /\ add_book("T", "A", IsbnNames[1], 0)
    \/ ids.member < 1 /\ add_member("F", "L", "public")
    \/ \E m \in KnownMemberIds, b \in KnownBookIds :
           Len(transactions) < BalTrans /\ borrow_book(m, b)
    \/ \E m \in KnownMemberIds, b \in KnownBookIds :
           Len(transactions) < BalTrans /\ return_book(m, b)
    \/ \E m \in KnownMemberIds, a \in BalAmounts \cup {0} :
           Len(transactions) < BalTrans /\ pay_fine(m, a)
    \/ \E m \in DOMAIN members, a \in BalAmounts :
           members[m].fine_amount + a <= Money(BalFineUnits) /\ add_fine(m, a)
    \/ \E m \in DOMAIN members, a \in BalAmounts : member_pay_fine(m, a)
    \/ \E d \in TickSteps : now + d <= MaxTime /\ Tick(d)

SpecBalance == Init /\ [][NextBalance]_vars

\* Loans, changes of status and deletions, with the listings that look up the
\* borrower of a book
NextRefs ==
    \/ ids.book < RefBooks /\ add_book("T", "A", IsbnNames[ids.book + 1], 0)
    \/ ids.member < RefMembers /\ add_member("F", "L", "public")
    \/ \E b \in DOMAIN books : delete_book(b)
    \/ \E m \in DOMAIN members : delete_member(m)
    \/ \E m \in DOMAIN members, b \in DOMAIN books :
           Len(transactions) < RefTrans /\ HistoryRoom(b) /\ borrow_book(m, b)
    \/ \E m \in DOMAIN members, b \in DOMAIN books :
           Len(transactions) < RefTrans /\ HistoryRoom(b) /\ return_book(m, b)
    \/ \E b \in DOMAIN books, s \in StatusInputs : set_status(b, s)
    \/ \E d \in TickSteps : now + d <= MaxTime /\ Tick(d)
    \/ get_overdue_books
    \/ get_library_statistics

SpecRefs == Init /\ [][NextRefs]_vars

-----------------------------------------------------------------------------
(* Properties *)

Store == <<books, members, transactions>>

SaveFailed == last.err = "LibraryServiceError" /\ last.msg = {"Failed to save data"}

BorrowerFieldsSet(book) ==
    book.borrowed_by # None /\ book.borrowed_date # NoneDate /\ book.due_date # NoneDate

BorrowerFieldsNull(book) ==
    book.borrowed_by = None /\ book.borrowed_date = NoneDate /\ book.due_date = NoneDate

\* C1: every book has status borrowed iff its borrower, borrowed date and due date
\* are all set, and has all three null in every other status.
C1_BorrowerFieldsMatchStatus ==
    \A b \in DOMAIN books :
        /\ books[b].status = "borrowed" <=> BorrowerFieldsSet(books[b])
        /\ books[b].status # "borrowed" => BorrowerFieldsNull(books[b])

\* C2: borrow_book on an existing member and an existing book whose status is
\* borrowed fails with TransactionError and changes no book, no member and no
\* transaction.
C2_BorrowOfBorrowedBookFails ==
    [][\A m \in DOMAIN members, b \in DOMAIN books :
          (borrow_book(m, b) /\ books[b].status = "borrowed")
          => (last'.err = "TransactionError" /\ UNCHANGED Store)]_vars

\* a borrow_book was refused because the book is not available, and every book of
\* the store is on loan
C2_Witness ==
    /\ last.op = "borrow_book"
    /\ last.err = "TransactionError"
    /\ last.msg = {"Book is not available"}
    /\ DOMAIN books # {}
    /\ \A b \in DOMAIN books : books[b].status = "borrowed" /\ books[b].borrowed_by # None

\* C3: return_book(M, B), called when B is in M's borrowed set and borrowed by M (the
\* state a successful borrow_book(M, B) leaves), raises no error, leaves B available
\* with no borrower and out of M's set, and stores a completed return transaction.
C3_ReturnAfterBorrowSucceeds ==
    [][\A m \in DOMAIN members, b \in DOMAIN books :
          (/\ return_book(m, b)
           /\ InSeq(members[m].borrowed_books, b)
           /\ books[b].borrowed_by = m)
          => (/\ last'.err = None
              /\ books'[b].status = "available"
              /\ books'[b].borrowed_by = None
              /\ ~InSeq(members'[m].borrowed_books, b)
              /\ \E i \in DOMAIN transactions' :
                     /\ transactions'[i].transaction_type = "return"
                     /\ transactions'[i].status = "completed"
                     /\ transactions'[i].member_id = m
                     /\ transactions'[i].book_id = b)]_vars

\* C4: a return_book(M, B) at least one whole day after B's due date computes a fine
\* greater than 0, equal to the progressive schedule for the days overdue, records
\* it on the return transaction and adds exactly it to M's fine balance.
C4_OverdueReturnIsFined ==
    [][\A m \in DOMAIN members, b \in DOMAIN books :
          (/\ return_book(m, b)
           /\ InSeq(members[m].borrowed_books, b)
           /\ books[b].borrowed_by = m
           /\ books[b].due_date # NoneDate
           /\ now >= books[b].due_date + 1)
          => LET fine == ProgressiveFine(now - books[b].due_date, daily_fine_rate)
             IN  /\ fine > 0
                 /\ Len(transactions') = Len(transactions) + 1
                 /\ transactions'[Len(transactions')].fine_amount = fine
                 /\ members'[m].fine_amount = members[m].fine_amount + fine]_vars

\* C5: a borrow_book that put a book into the member's borrowed set leaves that
\* member with at most max_books_allowed borrowed books.
C5_BorrowKeepsLimit ==
    [][\A m \in DOMAIN members, b \in DOMAIN books :
          (borrow_book(m, b) /\ members'[m] # members[m])
          => Len(members'[m].borrowed_books) <= members'[m].max_books_allowed]_vars

\* a borrow_book has just succeeded and brought the member to the limit exactly
C5_Witness ==
    /\ last.op = "borrow_book"
    /\ last.err = None
    /\ \E m \in DOMAIN members :
           /\ members[m].borrowed_books # <<>>
           /\ Len(members[m].borrowed_books) = members[m].max_books_allowed

\* C6: every member's borrowed set has at most max_books_allowed elements.
C6_BorrowedWithinLimit ==
    \A m \in DOMAIN members :
        Len(members[m].borrowed_books) <= members[m].max_books_allowed

EngineCall(m, b) ==
    \/ borrow_book(m, b)
    \/ return_book(m, b)
    \/ renew_book(m, b)
    \/ \E a \in {0, Money(1), Money(MaxFineUnits + 1)} : pay_fine(m, a)

\* C7: a borrow, return, renew or pay-fine that fails with an error raised before
\* the persistence write leaves every book (borrow history included), every member
\* and every stored transaction as it was.
C7_FailedEngineCallChangesNothing ==
    [][\A m \in KnownMemberIds, b \in KnownBookIds :
          (EngineCall(m, b) /\ last'.err # None /\ ~SaveFailed')
          => UNCHANGED Store]_vars

\* C8: delete_member on a member with a nonzero fine or a nonempty borrowed set fails
\* with an error and leaves members, books and transactions unchanged.
C8_DeleteMemberRefused ==
    [][\A m \in DOMAIN members :
          (/\ delete_member(m)
           /\ (members[m].fine_amount # 0 \/ members[m].borrowed_books # <<>>))
          => (last'.err = "LibraryServiceError" /\ UNCHANGED Store)]_vars

\* a delete_member was refused for a member that holds no book but owes a fine
C8_Witness ==
    /\ last.op = "delete_member"
    /\ last.err = "LibraryServiceError"
    /\ last.msg = {"Cannot delete member with outstanding fines"}
    /\ \E m \in DOMAIN members : members[m].fine_amount > 0

\* C9: delete_book is refused and changes nothing when the book is borrowed or a
\* pending transaction refers to it; otherwise it removes that book and nothing else.
C9_DeleteBook ==
    [][\A b \in DOMAIN books :
          delete_book(b)
          => IF books[b].status = "borrowed"
                \/ \E i \in DOMAIN transactions :
                       transactions[i].book_id = b /\ transactions[i].status = "pending"
             THEN last'.err = "LibraryServiceError" /\ UNCHANGED Store
             ELSE /\ DOMAIN books' = DOMAIN books \ {b}
                  /\ \A x \in DOMAIN books' : books'[x] = books[x]
                  /\ UNCHANGED <<members, transactions>>]_vars

\* a delete_book was refused for a book on loan, after another book had been deleted
C9_Witness ==
    /\ last.op = "delete_book"
    /\ last.err = "LibraryServiceError"
    /\ last.msg = {"Cannot delete a borrowed book"}
    /\ \E b \in DOMAIN books : books[b].status = "borrowed"
    /\ Cardinality(DOMAIN books) < ids.book

TerminalStatus == {"completed", "cancelled", "failed"}

InvalidChange(change) ==
    \/ change[1] \in {"title", "author", "first_name", "last_name"}
       /\ (change[2] = "" \/ Strip(change[2]) = "")
    \/ change[1] = "pages" /\ change[2] < 0

HasInvalidChange(kwargs) == \E i \in DOMAIN kwargs : InvalidChange(kwargs[i])

\* C11: update_book and update_member with field changes of which one is invalid
\* report an error and leave the stored entity as it was in every field, the valid
\* fields listed before the invalid one included.
C11_RejectedUpdateChangesNothing ==
    [][/\ \A b \in DOMAIN books, k \in BookUpdates :
             (update_book(b, k) /\ HasInvalidChange(k))
             => (last'.err # None /\ books'[b] = books[b])
       /\ \A m \in DOMAIN members, k \in MemberUpdates :
             (update_member(m, k) /\ HasInvalidChange(k))
             => (last'.err # None /\ members'[m] = members[m])]_vars

NoTwoBooksShareIsbn ==
    \A b1, b2 \in DOMAIN books : b1 # b2 => books[b1].isbn # books[b2].isbn

\* C12: no two books of the store have the same ISBN as stored, and an add_book
\* whose ISBN, stripped as the constructor strips it, is that of a stored book is
\* rejected and leaves the store unchanged.
C12_IsbnIsUnique ==
    [][/\ NoTwoBooksShareIsbn'
       /\ \A f \in CatBookForms :
             (/\ add_book(f[1], f[2], f[3], f[4])
              /\ \E b \in DOMAIN books : books[b].isbn = Strip(f[3]))
             => (last'.err = "LibraryServiceError" /\ UNCHANGED Store)]_vars

\* C13: a borrow_book(m, b) that returns leaves b borrowed by m and due
\* default_borrow_days after now, b in m's borrowed set, and exactly one more
\* transaction: a completed borrow of b by m with the due date of the book.
C13_BorrowEffect ==
    [][\A m \in DOMAIN members, b \in DOMAIN books :
          (borrow_book(m, b) /\ last'.err = None)
          => /\ books'[b].status = "borrowed"
             /\ books'[b].borrowed_by = m
             /\ books'[b].due_date = now + default_borrow_days
             /\ InSeq(members'[m].borrowed_books, b)
             /\ Len(transactions') = Len(transactions) + 1
             /\ SubSeq(transactions', 1, Len(transactions)) = transactions
             /\ LET t == transactions'[Len(transactions')]
                IN  /\ t.transaction_type = "borrow"
                    /\ t.status = "completed"
                    /\ t.member_id = m
                    /\ t.book_id = b
                    /\ t.due_date = books'[b].due_date]_vars

\* a borrow_book has just returned, on a day later than the day the service started
C13_Witness ==
    /\ last.op = "borrow_book"
    /\ last.err = None
    /\ now > 0
    /\ \E b \in DOMAIN books :
           books[b].status = "borrowed" /\ books[b].due_date = now + default_borrow_days

\* C14: borrow_book returns only if the member is active, today is not after the
\* membership end date, the member has fewer books than max_books_allowed and no
\* fine, and the book is available; otherwise it fails with TransactionError.
C14_BorrowOnlyIfEligible ==
    [][\A m \in DOMAIN members, b \in DOMAIN books :
          borrow_book(m, b)
          => LET eligible ==
                     /\ members[m].status = "active"
                     /\ now <= members[m].membership_end_date
                     /\ Len(members[m].borrowed_books) < members[m].max_books_allowed
                     /\ members[m].fine_amount = 0
                     /\ books[b].status = "available"
             IN  /\ last'.err = None => eligible
                 /\ ~eligible => last'.err = "TransactionError"]_vars

\* a borrow_book was refused for an active member without fine and below the
\* limit, only because the membership ended the day before
C14_Witness ==
    /\ last.op = "borrow_book"
    /\ last.err = "TransactionError"
    /\ last.msg = {"membership has expired"}
    /\ \E m \in DOMAIN members : now = members[m].membership_end_date + 1

\* C15: a borrow_book refused because the member is not eligible names every
\* reason that applies to the member among not active, membership expired, book
\* limit reached and outstanding fines.
C15_AllRefusalReasonsListed ==
    [][\A m \in DOMAIN members, b \in DOMAIN books :
          LET inactive == members[m].status # "active"
              expired == now > members[m].membership_end_date
              atLimit == Len(members[m].borrowed_books) >= members[m].max_books_allowed
              fined == members[m].fine_amount > 0
          IN  (borrow_book(m, b) /\ (inactive \/ expired \/ atLimit \/ fined))
              => /\ last'.err = "TransactionError"
                 /\ inactive <=> "member is not active" \in last'.msg
                 /\ expired <=> "membership has expired" \in last'.msg
                 /\ atLimit <=> "maximum book limit reached" \in last'.msg
                 /\ fined <=> "outstanding fines must be paid" \in last'.msg]_vars

\* a borrow_book was refused with all four reasons at once
C15_Witness ==
    /\ last.op = "borrow_book"
    /\ last.err = "TransactionError"
    /\ last.msg = {"member is not active", "membership has expired",
                   "maximum book limit reached", "outstanding fines must be paid"}

\* C16: return_book(m, b) fails with TransactionError and changes nothing when b
\* is not in m's borrowed set or b's borrower is not m.
C16_ReturnRefused ==
    [][\A m \in DOMAIN members, b \in DOMAIN books :
          (/\ return_book(m, b)
           /\ (~InSeq(members[m].borrowed_books, b) \/ books[b].borrowed_by # m))
          => (last'.err = "TransactionError" /\ UNCHANGED Store)]_vars

\* a return_book was refused for a book that is on loan to another member
C16_Witness ==
    /\ last.op = "return_book"
    /\ last.err = "TransactionError"
    /\ last.msg = {"Member does not have this book borrowed"}
    /\ \E m \in DOMAIN members :
           /\ members[m].borrowed_books = <<>>
           /\ \E b \in DOMAIN books :
                  books[b].status = "borrowed" /\ books[b].borrowed_by \notin {m, None}

\* C17: renew_book(m, b) fails with TransactionError and changes nothing when b is
\* not in m's borrowed set or now is later than b's due date; at now equal to the
\* due date the book is not taken for overdue.
C17_RenewRefused ==
    [][\A m \in DOMAIN members, b \in DOMAIN books :
          renew_book(m, b)
          => /\ (\/ ~InSeq(members[m].borrowed_books, b)
                 \/ (books[b].due_date # NoneDate /\ now > books[b].due_date))
                => (last'.err = "TransactionError" /\ UNCHANGED Store)
             /\ (InSeq(members[m].borrowed_books, b) /\ now = books[b].due_date)
                => "Cannot renew overdue book" \notin last'.msg]_vars

\* a renew_book on the due day itself has moved the due date
C17_Witness ==
    /\ last.op = "renew_book"
    /\ "Cannot renew overdue book" \notin last.msg
    /\ \E i \in DOMAIN transactions :
           /\ transactions[i].transaction_type = "renew"
           /\ transactions[i].processed_at = now
           /\ transactions[i].due_date = now + default_borrow_days
           /\ books[transactions[i].book_id].due_date = now + default_borrow_days

\* C18: no (member, book) pair ever has more than max_renewals completed renew
\* transactions in the store, and once a pair has max_renewals of them every
\* renew_book of the pair fails with TransactionError, also in a later loan of the
\* same book to the same member.
C18_RenewalLimit ==
    [][/\ \A m \in DOMAIN members', b \in DOMAIN books' :
             Cardinality({i \in DOMAIN transactions' :
                 /\ transactions'[i].member_id = m
                 /\ transactions'[i].book_id = b
                 /\ transactions'[i].transaction_type = "renew"
                 /\ transactions'[i].status = "completed"}) <= max_renewals
       /\ \A m \in DOMAIN members, b \in DOMAIN books :
             (/\ renew_book(m, b)
              /\ Cardinality({i \in DOMAIN transactions :
                     /\ transactions[i].member_id = m
                     /\ transactions[i].book_id = b
                     /\ transactions[i].transaction_type = "renew"
                     /\ transactions[i].status = "completed"}) >= max_renewals)
             => (last'.err = "TransactionError" /\ UNCHANGED Store)]_vars

\* a renew_book was refused at the limit, in a second loan of the book to the member
C18_Witness ==
    /\ last.op = "renew_book"
    /\ last.err = "TransactionError"
    /\ last.msg = {"Maximum renewals reached"}
    /\ \E b \in DOMAIN books :
           /\ books[b].status = "borrowed"
           /\ books[b].borrow_history # <<>>
           /\ books[b].borrow_history[1].member_id = books[b].borrowed_by

\* C19: a renew_book(m, b) that returns moves b's due date by default_borrow_days,
\* adds exactly one completed renew transaction with the new due date, and leaves
\* b's status, borrower and borrowed date, m's borrowed set and fine, and the
\* transactions stored before as they were.
C19_RenewEffect ==
    [][\A m \in DOMAIN members, b \in DOMAIN books :
          (renew_book(m, b) /\ last'.err = None)
          => /\ books'[b].due_date = books[b].due_date + default_borrow_days
             /\ books'[b].status = books[b].status
             /\ books'[b].borrowed_by = books[b].borrowed_by
             /\ books'[b].borrowed_date = books[b].borrowed_date
             /\ members'[m].borrowed_books = members[m].borrowed_books
             /\ members'[m].fine_amount = members[m].fine_amount
             /\ Len(transactions') = Len(transactions) + 1
             /\ SubSeq(transactions', 1, Len(transactions)) = transactions
             /\ LET t == transactions'[Len(transactions')]
                IN  /\ t.transaction_type = "renew"
                    /\ t.status = "completed"
                    /\ t.member_id = m
                    /\ t.book_id = b
                    /\ t.due_date = books'[b].due_date]_vars

\* a renew_book has just returned, before the due day, for a loan that began on
\* an earlier day
C19_Witness ==
    /\ last.op = "renew_book"
    /\ last.err = None
    /\ \E b \in DOMAIN books :
           /\ books[b].status = "borrowed"
           /\ books[b].borrowed_date < now
           /\ books[b].due_date > now + default_borrow_days

\* C20: pay_fine(m, amount) returns iff 0 < amount <= m's fine; it then lowers the
\* fine by exactly amount and adds one completed fine_payment transaction of that
\* amount; otherwise it fails with TransactionError and leaves the fine and the
\* transactions as they were.
C20_PayFine ==
    [][\A m \in DOMAIN members, a \in {0, Money(1), Money(MaxFineUnits + 1)} :
          pay_fine(m, a)
          => IF 0 < a /\ a <= members[m].fine_amount
             THEN /\ last'.err = None
                  /\ members'[m].fine_amount = members[m].fine_amount - a
                  /\ Len(transactions') = Len(transactions) + 1
                  /\ SubSeq(transactions', 1, Len(transactions)) = transactions
                  /\ LET t == transactions'[Len(transactions')]
                     IN  /\ t.transaction_type = "fine_payment"
                         /\ t.status = "completed"
                         /\ t.member_id = m
                         /\ t.amount = a
             ELSE /\ last'.err = "TransactionError"
                  /\ members'[m].fine_amount = members[m].fine_amount
                  /\ transactions' = transactions]_vars

\* the schedule of the claim, in half cents: d*r up to 7 days, 7r + (d-7)*1.5r up
\* to 30 days, 7r + 23*1.5r + (d-30)*2r beyond
ScheduleHalfCents(d, r) ==
    IF d <= 7 THEN 2 * d * r
    ELSE IF d <= 30 THEN 2 * 7 * r + (d - 7) * 3 * r
    ELSE 2 * 7 * r + 23 * 3 * r + (d - 30) * 4 * r

\* a completed borrow transaction that is overdue today
OverdueBorrow(t) ==
    /\ t.transaction_type = "borrow"
    /\ t.status = "completed"
    /\ t.due_date # NoneDate
    /\ now > t.due_date

\* C21: calculate_fine(r) of a completed borrow transaction overdue by d whole
\* days returns the schedule's amount exactly, and 0 when the transaction is not
\* overdue.
C21_FineIsTheSchedule ==
    [][\A i \in DOMAIN txns, r \in FineRates :
          calculate_fine(i, r)
          => IF OverdueBorrow(txns[i])
             THEN 2 * last'.ret = ScheduleHalfCents(now - txns[i].due_date, r)
             ELSE last'.ret = 0]_vars

\* C21, amended: calculate_fine(r) returns the schedule's amount rounded to whole
\* cents: within half a cent of the schedule, and equal to it when the schedule
\* gives whole cents, as it does at r = 1.0 (5.00 for 5 days, 11.50 for 10 days,
\* 51.50 for 35 days); it returns 0 when the transaction is not overdue.
C21_FineIsTheRoundedSchedule ==
    [][\A i \in DOMAIN txns, r \in FineRates :
          calculate_fine(i, r)
          => IF OverdueBorrow(txns[i])
             THEN LET d == now - txns[i].due_date
                      h == ScheduleHalfCents(d, r)
                  IN  /\ 2 * last'.ret - h \in {0 - 1, 0, 1}
                      /\ h % 2 = 0 => 2 * last'.ret = h
                      /\ (r = Money(1) /\ d = 5) => last'.ret = 500
                      /\ (r = Money(1) /\ d = 10) => last'.ret = 1150
                      /\ (r = Money(1) /\ d = 35) => last'.ret = 5150
             ELSE last'.ret = 0]_vars

\* calculate_fine(1.0) has just returned 51.50 for a borrow transaction that is 35
\* days overdue
C21_Witness ==
    /\ last.op = "calculate_fine"
    /\ last.ret = 5150
    /\ \E i \in DOMAIN txns : OverdueBorrow(txns[i]) /\ now - txns[i].due_date = 35

\* what C22 asks of a call with an id that is not in the store
NotFoundRaised(m, b) ==
    /\ last'.err = (IF m # None /\ m \notin DOMAIN members
                    THEN "MemberNotFoundError" ELSE "BookNotFoundError")
    /\ UNCHANGED Store

\* C22: get_book, get_member, borrow_book, return_book, renew_book, pay_fine,
\* update_book, update_member, delete_book and delete_member, called with a book
\* or member id that is not in the store, fail with BookNotFoundError or
\* MemberNotFoundError and leave the store unchanged.
C22_NotFound ==
    [][/\ \A b \in KnownBookIds \ DOMAIN books :
             /\ (get_book(b) \/ delete_book(b)) => NotFoundRaised(None, b)
             /\ \A k \in BookUpdates : update_book(b, k) => NotFoundRaised(None, b)
       /\ \A m \in KnownMemberIds \ DOMAIN members :
             /\ (get_member(m) \/ delete_member(m)) => NotFoundRaised(m, None)
             /\ \A k \in MemberUpdates : update_member(m, k) => NotFoundRaised(m, None)
             /\ \A a \in {0, Money(1)} : pay_fine(m, a) => NotFoundRaised(m, None)
       /\ \A m \in KnownMemberIds, b \in KnownBookIds :
             (/\ m \notin DOMAIN members \/ b \notin DOMAIN books
              /\ borrow_book(m, b) \/ return_book(m, b) \/ renew_book(m, b))
             => NotFoundRaised(m, b)]_vars

\* a delete_member has just failed for the id of a member that was deleted before
C22_Witness ==
    /\ last.op = "delete_member"
    /\ last.err = "MemberNotFoundError"
    /\ ids.member > 0
    /\ DOMAIN members = {}

\* the transaction that the step has added to the store
Added(type, m, b) ==
    /\ Len(transactions') = Len(transactions) + 1
    /\ transactions'[Len(transactions')].transaction_type = type
    /\ transactions'[Len(transactions')].member_id = m
    /\ transactions'[Len(transactions')].book_id = b
    /\ transactions'[Len(transactions')].status = "completed"

\* C23: when the persistence write fails during a mutating operation of the
\* service, the operation reports LibraryServiceError ("Failed to save data") and
\* the change it made in memory is kept: the entity is added, changed or deleted
\* and the transaction is added all the same.
C23_FailedWriteKeepsMutation ==
    [][/\ (last'.op = "add_book" /\ ids'.book # ids.book /\ ~SaveData(books', members', transactions', disk).ok)
          => SaveFailed' /\ BookIdNames[ids'.book] \in DOMAIN books' \ DOMAIN books
       /\ (last'.op = "add_member" /\ ids'.member # ids.member /\ ~SaveData(books', members', transactions', disk).ok)
          => SaveFailed' /\ MemberIdNames[ids'.member] \in DOMAIN members' \ DOMAIN members
       /\ \A b \in DOMAIN books :
             /\ (delete_book(b) /\ SaveFailed') => b \notin DOMAIN books'
             /\ (update_book(b, <<<<"title", "U">>>>) /\ SaveFailed')
                => books' = Put(books, b, [books[b] EXCEPT !.title = "U"])
       /\ \A m \in DOMAIN members :
             /\ (delete_member(m) /\ SaveFailed') => m \notin DOMAIN members'
             /\ (update_member(m, <<<<"first_name", "G">>>>) /\ SaveFailed')
                => members' = Put(members, m, [members[m] EXCEPT !.first_name = "G"])
             /\ (pay_fine(m, Money(1)) /\ SaveFailed')
                => /\ members'[m].fine_amount = members[m].fine_amount - Money(1)
                   /\ Added("fine_payment", m, None)
       /\ \A m \in DOMAIN members, b \in DOMAIN books :
             /\ (borrow_book(m, b) /\ SaveFailed')
                => /\ books'[b].status = "borrowed" /\ books'[b].borrowed_by = m
                   /\ InSeq(members'[m].borrowed_books, b)
                   /\ Added("borrow", m, b)
             /\ (return_book(m, b) /\ SaveFailed')
                => /\ books'[b].status = "available"
                   /\ ~InSeq(members'[m].borrowed_books, b)
                   /\ Added("return", m, b)
             /\ (renew_book(m, b) /\ SaveFailed')
                => /\ books'[b].due_date = books[b].due_date + default_borrow_days
                   /\ Added("renew", m, b)]_vars

\* a borrow has failed at the write, and the book is on loan to the member
C23_Witness ==
    /\ last.op = "borrow_book"
    /\ SaveFailed
    /\ \E m \in DOMAIN members, b \in DOMAIN books :
           /\ books[b].status = "borrowed"
           /\ books[b].borrowed_by = m
           /\ InSeq(members[m].borrowed_books, b)
           /\ transactions[Len(transactions)].transaction_type = "borrow"
           /\ transactions[Len(transactions)].book_id = b

MutatingOperations ==
    {"add_book", "update_book", "delete_book", "add_member", "update_member",
     "delete_member", "borrow_book", "return_book", "renew_book", "pay_fine"}

\* the three files hold the documents of the collections in memory
Persisted ==
    /\ disk.books = WrittenFile([id \in DOMAIN books |-> Book_to_dict(id, books[id])])
    /\ disk.members =
           WrittenFile([id \in DOMAIN members |-> Member_to_dict(id, members[id])])
    /\ disk.transactions =
           WrittenFile([i \in DOMAIN transactions |->
                           Transaction_to_dict(i, transactions[i])])

\* C24: after an add, update or delete of a book or member, a borrow, a return,
\* a renewal or a fine payment that returned without an error, books.json,
\* members.json and transactions.json hold the snapshot of the books, members and
\* transactions in memory.
C24_SuccessfulCallIsPersisted ==
    (last.op \in MutatingOperations /\ last.err = None) => Persisted

\* a renewal has returned, with a loan and two transactions to persist
C24_Witness ==
    /\ last.op = "renew_book"
    /\ last.err = None
    /\ Len(transactions) = 2
    /\ disk.transactions.state = "written"
    /\ \E b \in DOMAIN books : books[b].status = "borrowed"

ReadOperations ==
    {"get_library_statistics", "get_overdue_books", "search_books", "search_members",
     "get_all_books", "get_all_members"}

\* C25: get_library_statistics, get_overdue_books, search_books, search_members,
\* get_all_books and get_all_members leave every book, member and transaction as
\* it was.
C25_ReadsChangeNothing ==
    [][last'.op \in ReadOperations => UNCHANGED Store]_vars

\* get_overdue_books has returned an overdue loan
C25_Witness ==
    /\ last.op = "get_overdue_books"
    /\ last.err = None
    /\ last.ret # {}

\* the completed borrow of the book by its borrower that made the loan the book
\* is on: the latest one
CurrentLoanTransaction(b) ==
    LET found == {i \in 1..Len(transactions) :
                     /\ transactions[i].member_id = books[b].borrowed_by
                     /\ transactions[i].book_id = b
                     /\ transactions[i].transaction_type = "borrow"
                     /\ transactions[i].status = "completed"}
    IN  IF found = {} THEN 0 ELSE CHOOSE i \in found : \A j \in found : i >= j

\* C26: get_overdue_books returns exactly the books that are borrowed with a due
\* date strictly before now, each with the member that is its borrower and with
\* the completed borrow transaction of that member for that book that created
\* the loan the book is on.
C26_OverdueBooks ==
    [][(get_overdue_books /\ last'.err = None)
       => last'.ret = {<<b, books[b].borrowed_by, CurrentLoanTransaction(b)>> :
                          b \in {id \in DOMAIN books :
                                     /\ books[id].status = "borrowed"
                                     /\ books[id].due_date # NoneDate
                                     /\ books[id].due_date < now}}]_vars

\* C27: to_dict followed by from_dict gives back every stored book, member and
\* transaction with the id and every field it had: status, borrower, dates,
\* borrowed books, fine, limit and history.
C27_RoundTrip ==
    /\ \A id \in DOMAIN books :
          Book_from_dict(Book_to_dict(id, books[id])) = [id |-> id, book |-> books[id]]
    /\ \A id \in DOMAIN members :
          Member_from_dict(Member_to_dict(id, members[id]))
              = [id |-> id, member |-> members[id]]
    /\ \A i \in DOMAIN transactions :
          Transaction_from_dict(Transaction_to_dict(i, transactions[i]))
              = [id |-> i, t |-> transactions[i]]

\* on a later day the store holds a book on loan, a book with a history and the
\* transaction of a return
C27_Witness ==
    /\ now > 0
    /\ \E b \in DOMAIN books : books[b].status = "borrowed" /\ books[b].due_date # NoneDate
    /\ \E b \in DOMAIN books : books[b].borrow_history # <<>>
    /\ \E m \in DOMAIN members : members[m].borrowed_books # <<>>
    /\ \E i \in DOMAIN transactions : transactions[i].return_date # NoneDate

\* every rule of a book that the book breaks
BookViolations(book) ==
    {e \in {"Title is required", "Author is required", "ISBN is required",
            "Pages cannot be negative"} :
        \/ e = "Title is required" /\ book.title = ""
        \/ e = "Author is required" /\ book.author = ""
        \/ e = "ISBN is required" /\ book.isbn = ""
        \/ e = "Pages cannot be negative" /\ book.pages < 0}

\* every rule of a member that the member breaks
MemberViolations(member) ==
    {e \in {"First name is required", "Last name is required",
            "Fine amount cannot be negative", "Invalid email format",
            "Invalid phone format"} :
        \/ e = "First name is required" /\ member.first_name = ""
        \/ e = "Last name is required" /\ member.last_name = ""
        \/ e = "Fine amount cannot be negative" /\ member.fine_amount < 0
        \/ /\ e = "Invalid email format"
           /\ member.contact_info.email # ""
           /\ ~ContactInfo_is_valid_email(member.contact_info.email)
        \/ /\ e = "Invalid phone format"
           /\ member.contact_info.phone # ""
           /\ ~ContactInfo_is_valid_phone(member.contact_info.phone)}

\* C28: validation reports every rule the entity breaks together, a member with
\* an invalid email and an invalid phone gets both reported, and add_member and
\* add_book refuse an entity that breaks a rule without adding it to the store.
C28_AllViolationsReported ==
    [][/\ \A f \in ValidBookForms :
             (add_book(f[1], f[2], f[3], f[4])
              /\ BookViolations(NewBook(f[1], f[2], f[3], f[4])) # {})
             => /\ last'.err = "LibraryServiceError"
                /\ last'.msg = BookViolations(NewBook(f[1], f[2], f[3], f[4]))
                /\ UNCHANGED Store
       /\ \A f \in ValidMemberForms :
             (add_member_kwargs(f[1], f[2], "public", f[3])
              /\ MemberViolations(Member_init(f[1], f[2], "public", f[3])) # {})
             => /\ last'.err = "LibraryServiceError"
                /\ last'.msg = MemberViolations(Member_init(f[1], f[2], "public", f[3]))
                /\ UNCHANGED Store]_vars

\* the value of a character of an ISBN-10: X is ten
Isbn10Value(c) == IF c \in {"X", "x"} THEN 10 ELSE DigitValue(c)

\* the rule of ISBN-10: ten characters, nine digits and a digit or X, whose sum
\* with the weights 10 down to 1 is a multiple of 11
IsIsbn10(text) ==
    /\ Len(text) = 10
    /\ \A i \in 1..9 : text[i] \in Digits
    /\ text[10] \in Digits \cup {"X", "x"}
    /\ (  10 * Isbn10Value(text[1]) + 9 * Isbn10Value(text[2])
         + 8 * Isbn10Value(text[3]) + 7 * Isbn10Value(text[4])
         + 6 * Isbn10Value(text[5]) + 5 * Isbn10Value(text[6])
         + 4 * Isbn10Value(text[7]) + 3 * Isbn10Value(text[8])
         + 2 * Isbn10Value(text[9]) + Isbn10Value(text[10])) % 11 = 0

\* the rule of ISBN-13: thirteen digits whose sum with the weights 1 and 3 in
\* turn is a multiple of 10
IsIsbn13(text) ==
    /\ Len(text) = 13
    /\ \A i \in 1..13 : text[i] \in Digits
    /\ (  DigitValue(text[1]) + 3 * DigitValue(text[2]) + DigitValue(text[3])
         + 3 * DigitValue(text[4]) + DigitValue(text[5]) + 3 * DigitValue(text[6])
         + DigitValue(text[7]) + 3 * DigitValue(text[8]) + DigitValue(text[9])
         + 3 * DigitValue(text[10]) + DigitValue(text[11]) + 3 * DigitValue(text[12])
         + DigitValue(text[13])) % 10 = 0

\* the text without its spaces and dashes
Cleaned(text) == SelectSeq(text, LAMBDA c : c \notin {" ", "-"})

\* C29: the ISBN rule accepts a string exactly when, without its whitespace and
\* dashes, it is an ISBN-10 of ten characters with a correct mod-11 check
\* character or an ISBN-13 of thirteen digits with a correct mod-10 check digit;
\* "978-3-16-148410-0" and "0-306-40615-2" pass and "978-3-16-148410-1" fails.
C29_IsbnRule ==
    last.op = "isbn"
    => /\ last.msg = {} <=> (IsIsbn10(Cleaned(last.ret)) \/ IsIsbn13(Cleaned(last.ret)))
       /\ last.ret \in {Isbn13Good, Isbn10Good} => last.msg = {}
       /\ last.ret = Isbn13Bad => last.msg # {}

\* the rule has accepted "978-3-16-148410-0"
C29_Witness ==
    /\ last.op = "isbn"
    /\ last.ret = Isbn13Good
    /\ last.msg = {}

\* C30: set_status(s) on a borrowed book, with s other than available, returns
\* False and leaves every field of the book as it was; on a book that is not
\* borrowed it moves the book only between available, reserved, maintenance and
\* lost.
C30_SetStatus ==
    [][\A b \in DOMAIN books, s \in StatusInputs :
          set_status(b, s)
          => /\ (books[b].status = "borrowed" /\ s # "available")
                => (last'.ret = "False" /\ books'[b] = books[b])
             /\ books[b].status # "borrowed"
                => books'[b].status \in {"available", "reserved", "maintenance", "lost"}]_vars

\* the step is a return of book b that went through: the return transaction is
\* in the store
CompletedReturn(b) ==
    \E m \in DOMAIN members :
        return_book(m, b) /\ Len(transactions') = Len(transactions) + 1

\* the completed return transactions of book b in a list of transactions
ReturnsOf(txs, b) ==
    {i \in 1..Len(txs) : /\ txs[i].transaction_type = "return"
                         /\ txs[i].book_id = b
                         /\ txs[i].status = "completed"}

\* C31: the borrow history of a book is append-only: no step removes or alters
\* an entry, a completed return of the book adds exactly one entry, with the
\* borrower and the due date of the loan, every other step adds none, and the
\* length of the history is the number of returns of the book.
C31_HistoryAppendOnly ==
    [][\A b \in DOMAIN books \cap DOMAIN books' :
          LET old == books[b].borrow_history
              new == books'[b].borrow_history
          IN  /\ Len(new) >= Len(old)
              /\ SubSeq(new, 1, Len(old)) = old
              /\ IF CompletedReturn(b)
                 THEN /\ Len(new) = Len(old) + 1
                      /\ new[Len(new)].member_id = books[b].borrowed_by
                      /\ new[Len(new)].due_date = books[b].due_date
                 ELSE new = old
              /\ Len(new) = Cardinality(ReturnsOf(transactions', b))]_vars

\* the limit and the duration in years of each membership type
TypeLimit(t) ==
    CASE t = "student" -> 5 [] t = "faculty" -> 15 [] t = "staff" -> 10
      [] t = "premium" -> 20 [] t = "public" -> 3

TypeDuration(t) ==
    CASE t = "student" -> 1 [] t = "faculty" -> 3 [] t = "staff" -> 2
      [] t = "premium" -> 1 [] t = "public" -> 1

\* C32: after every change of the membership type of a member, by update_member
\* or by the setter, max_books_allowed is the limit of the new type and the
\* membership end date is the start date plus the duration of the new type.
C32_TypeChangeRecomputes ==
    [][\A m \in DOMAIN members \cap DOMAIN members' :
          members'[m].membership_type # members[m].membership_type
          => /\ members'[m].max_books_allowed = TypeLimit(members'[m].membership_type)
             /\ members'[m].membership_end_date =
                    members'[m].membership_start_date
                    + Years(TypeDuration(members'[m].membership_type))]_vars

\* a member who joined on an earlier day has been made a faculty member
C32_Witness ==
    /\ last.op \in {"update_member", "set_membership_type"}
    /\ \E m \in DOMAIN members :
           /\ members[m].membership_type = "faculty"
           /\ members[m].membership_start_date < now
           /\ members[m].max_books_allowed = 15
           /\ members[m].membership_end_date = members[m].membership_start_date + Years(3)

\* processed_by and processed_at of a transaction are both set
Processed(t) == t.processed_by # None /\ t.processed_at # NoneDate

\* C33: in every reachable state processed_by and processed_at of a transaction
\* are both set iff its status is completed; process_transaction on a
\* transaction that is not pending returns False and changes nothing.
C33_ProcessedIffCompleted ==
    [][/\ \A i \in DOMAIN txns' : Processed(txns'[i]) <=> txns'[i].status = "completed"
       /\ \A i \in DOMAIN transactions' :
              Processed(transactions'[i]) <=> transactions'[i].status = "completed"
       /\ \A i \in DOMAIN txns, p \in {"system", " "} :
              (process_transaction(i, p) /\ txns[i].status # "pending")
              => (last'.ret = "False" /\ txns' = txns)]_vars

\* process_transaction has been called again on a completed transaction
C33_Witness ==
    /\ last.op = "process_transaction"
    /\ last.ret = "False"
    /\ Len(txns) >= 1
    /\ \A i \in DOMAIN txns : txns[i].status = "completed" /\ Processed(txns[i])

\* C34: in every reachable state the fine balance of every member is >= 0,
\* after any sequence of return_book, add_fine and pay_fine calls.
C34_FineNeverNegative ==
    \A m \in DOMAIN members : members[m].fine_amount >= 0

\* after a return and a payment through the service, a fine has been paid on
\* the member itself and the balance is zero
C34_Witness ==
    /\ last.op = "member_pay_fine"
    /\ last.err = None
    /\ last.ret = 0
    /\ \E i \in DOMAIN transactions : transactions[i].transaction_type = "return"
    /\ \E i \in DOMAIN transactions :
           /\ transactions[i].transaction_type = "fine_payment"
           /\ members[transactions[i].member_id].fine_amount = 0

\* C35: in every state reachable by the service operations together with
\* Book.set_status, a book id b is in the borrowed set of member m iff book b
\* is in the store with borrowed_by = m; in particular no book id is in the
\* borrowed sets of two members at once.
C35_CrossEntityConsistency ==
    /\ \A m \in DOMAIN members, b \in {BookIdNames[i] : i \in 1..MaxBooks} :
           InSeq(members[m].borrowed_books, b)
           <=> (b \in DOMAIN books /\ books[b].borrowed_by = m)
    /\ \A m1, m2 \in DOMAIN members, b \in {BookIdNames[i] : i \in 1..MaxBooks} :
           (InSeq(members[m1].borrowed_books, b) /\ InSeq(members[m2].borrowed_books, b))
           => m1 = m2

\* C36: in every reachable state every book with a non-null borrowed_by refers
\* to a member that is in the member collection, so get_overdue_books and
\* get_library_statistics never fail with MemberNotFoundError.
C36_BorrowerExists ==
    /\ \A b \in DOMAIN books :
           books[b].borrowed_by # None => books[b].borrowed_by \in DOMAIN members
    /\ last.op \in {"get_overdue_books", "get_library_statistics"}
       => last.err # "MemberNotFoundError"

\* the overdue books have been listed while a book is on loan and past due and
\* another member has been deleted
C36_Witness ==
    /\ last.op = "get_overdue_books"
    /\ last.err = None
    /\ ids.member > Cardinality(DOMAIN members)
    /\ \E b \in DOMAIN books :
           /\ books[b].borrowed_by \in DOMAIN members
           /\ books[b].status = "borrowed"
           /\ PastDue(books[b])

\* book b is currently borrowed by member m
BorrowedBy(m, b) ==
    /\ b \in DOMAIN books
    /\ books[b].borrowed_by = m
    /\ books[b].status = "borrowed"

\* C37: renew_book(m, b) changes the due date of book b only when b is currently
\* borrowed by m (borrowed_by = m and status borrowed); in every other state it
\* fails with TransactionError or a not-found error and with no other error.
C37_RenewOnlyOwnLoan ==
    [][\A m \in KnownMemberIds, b \in KnownBookIds :
          renew_book(m, b)
          => /\ (b \in DOMAIN books /\ books'[b].due_date # books[b].due_date)
                => BorrowedBy(m, b)
             /\ ~BorrowedBy(m, b)
                => last'.err \in {"TransactionError", "MemberNotFoundError",
                                  "BookNotFoundError"}]_vars

\* C38: every transaction in the transaction collection of the service has
\* status completed, after any sequence of borrow_book, return_book, renew_book
\* and pay_fine; hence the pending-transaction check of delete_book never
\* rejects a deletion.
C38_StoredTransactionsCompleted ==
    /\ \A i \in DOMAIN transactions : transactions[i].status = "completed"
    /\ \A b \in DOMAIN books : ~HasPendingTransactions(b)
    /\ last.op = "delete_book"
       => "Cannot delete book with pending transactions" \notin last.msg

\* a book that has transactions in the collection has been deleted
C38_Witness ==
    /\ last.op = "delete_book"
    /\ \E i \in DOMAIN transactions :
           /\ transactions[i].book_id # None
           /\ transactions[i].book_id \notin DOMAIN books
           /\ transactions[i].status = "completed"

\* what identifies a stored transaction
Identity(t) ==
    <<t.member_id, t.book_id, t.transaction_type, t.amount, t.due_date>>

\* C39: the transaction collection is an append-only log: no service operation
\* (delete_book and delete_member included) removes a stored transaction or
\* changes its member id, book id, type, amount or due date; each successful
\* borrow, return, renew or pay-fine adds exactly one transaction and every
\* failed one adds none.
C39_AppendOnlyLog ==
    [][/\ Len(transactions') >= Len(transactions)
       /\ \A i \in DOMAIN transactions :
              Identity(transactions'[i]) = Identity(transactions[i])
       /\ \A m \in KnownMemberIds, b \in KnownBookIds :
              EngineCall(m, b)
              => Len(transactions') =
                     Len(transactions) + (IF last'.err = None THEN 1 ELSE 0)]_vars

====
